---- MODULE Spec2Model ----
(***************************************************************************)
(* Row-classification workflow of src/test_graph.py: the LangGraph state   *)
(* machine strategy_determiner -> row_validator -> prompt_preparer ->       *)
(* llm_classifier -> quality_checker -> (error_handler | END), and the      *)
(* batch loop of __main__ that invokes it once per row.                     *)
(*                                                                         *)
(* Python values are modelled as follows.                                   *)
(*   - a text (str) is a sequence of tokens; a token is an indivisible      *)
(*     piece of text ("Error:", " ", "Urgent", ...).  Concatenation is \o,  *)
(*     prefix and substring tests are computed on the token sequence.       *)
(*   - Optional[T] is <<>> for None and <<x>> for a value x.                *)
(*   - a dict is the sequence of its items [k, v], in insertion order.      *)
(*   - a confidence is an integer number of hundredths (0.65 is 65).        *)
(***************************************************************************)
EXTENDS Integers, Sequences, FiniteSets, TLC

VARIABLES
    target_column,           \* __main__: target_column
    user_label_column_name,  \* __main__: user_label_column_name (Optional)
    user_provided_examples,  \* __main__: user_provided_examples (Optional list of dicts)
    user_class_definitions,  \* __main__: user_class_definitions (Optional dict)
    df,                      \* __main__: the rows read from the input file
    index,                   \* __main__: position of the batch loop in df (1-based)
    state,                   \* ExcelRowClassificationState of the row in progress
    pc,                      \* the graph node that runs next for the row in progress
    results,                 \* __main__: results
    llm_calls,               \* number of llm_client.invoke calls made for the row in progress
    llm_log,                 \* per finished or running row, the responses the client gave
    stub,                    \* deterministic classifier stub: prompt -> response, filled on first use
    first_run                \* outputs of the first run of a row that is run twice

vars == <<target_column, user_label_column_name, user_provided_examples,
          user_class_definitions, df, index, state, pc, results, llm_calls,
          llm_log, stub, first_run>>

-----------------------------------------------------------------------------
(* Bounds of the model *)

MaxRows == 2

-----------------------------------------------------------------------------
(* Optional values and Python truthiness *)

None == <<>>
Some(x) == <<x>>
IsNone(o) == o = <<>>
Val(o) == o[1]

\* truthiness of an Optional[str], Optional[list] or Optional[dict]:
\* None and the empty value are falsy
Truthy(o) == o # <<>> /\ o[1] # <<>>

-----------------------------------------------------------------------------
(* Texts as token sequences *)

SP == " "
NL == "\n"

IsSpace(t) == t \in {SP, NL}

\* str.lower() on one token: only the markers have upper-case variants here
LowerTok(t) ==
    CASE t = "Category:"  -> "category:"
      [] t = "CATEGORY:"  -> "category:"
      [] t = "Reasoning:" -> "reasoning:"
      [] OTHER -> t

Lower(s) == [i \in 1..Len(s) |-> LowerTok(s[i])]

StartsWith(s, p) == Len(s) >= Len(p) /\ SubSeq(s, 1, Len(p)) = p

Contains(s, p) == \E i \in 0..(Len(s) - Len(p)) : SubSeq(s, i + 1, i + Len(p)) = p

RECURSIVE LStrip(_)
LStrip(s) == IF s # <<>> /\ IsSpace(Head(s)) THEN LStrip(Tail(s)) ELSE s

RECURSIVE RStrip(_)
RStrip(s) == IF s # <<>> /\ IsSpace(s[Len(s)]) THEN RStrip(SubSeq(s, 1, Len(s) - 1)) ELSE s

\* str.strip()
Strip(s) == RStrip(LStrip(s))

\* sep.join(parts)
RECURSIVE Join(_, _)
Join(sep, parts) ==
    IF parts = <<>> THEN <<>>
    ELSE IF Len(parts) = 1 THEN parts[1]
    ELSE parts[1] \o sep \o Join(sep, Tail(parts))

\* decimal digits of a natural number, as str() prints it
DigitTok == <<"0", "1", "2", "3", "4", "5", "6", "7", "8", "9">>

RECURSIVE Digits(_)
Digits(n) == IF n < 10 THEN <<DigitTok[n + 1]>>
             ELSE Digits(n \div 10) \o <<DigitTok[(n % 10) + 1]>>

-----------------------------------------------------------------------------
(* Cell values of a row: a str, a number, or an object whose conversion    *)
(* raises.  s is the text of a str, n the value of a number; fmt tells     *)
(* whether format() of an object works (str() of it always raises).        *)

Str(s) == [t |-> "str", s |-> s, n |-> 0, fmt |-> TRUE]
Num(n) == [t |-> "num", s |-> <<>>, n |-> n, fmt |-> TRUE]
Obj(f) == [t |-> "obj", s |-> <<>>, n |-> 0, fmt |-> f]

IsStr(v) == v.t = "str"

\* str(v) succeeds
StrOk(v) == v.t # "obj"

\* str(v), where it succeeds
StrOf(v) == IF v.t = "str" THEN v.s ELSE Digits(v.n)

\* f"{v}" succeeds
FormatOk(v) == v.t # "obj" \/ v.fmt

-----------------------------------------------------------------------------
(* Dicts (a row, an example, the category definitions): a sequence of     *)
(* [k, v] items with distinct keys, in insertion order.                    *)

Item(k, v) == [k |-> k, v |-> v]

Keys(row) == [i \in 1..Len(row) |-> row[i].k]

\* k in row
RowHas(row, k) == \E i \in 1..Len(row) : row[i].k = k

\* row[k], for k in row
RowAt(row, k) == row[CHOOSE i \in 1..Len(row) : row[i].k = k].v

\* row.get(k, default)
RowGet(row, k, default) == IF RowHas(row, k) THEN RowAt(row, k) ELSE default

\* row[k] = v, for k in row
RowSet(row, k, v) == [i \in 1..Len(row) |-> IF row[i].k = k THEN Item(k, v) ELSE row[i]]

\* str(list(row.keys())): "['a', 'b']"
KeysText(row) ==
    <<"[">> \o Join(<<", ">>, [i \in 1..Len(row) |-> <<"'", row[i].k, "'">>]) \o <<"]">>

-----------------------------------------------------------------------------
(* Confidence values of the source, in hundredths *)

DefaultConfidence == 75
AnomalyConfidence == 90
EmptyInvalidConfidence == 50
UnsupervisedConfidence == 65
UncertainConfidence == 40
DefinitionConfidence == 85
ExampleConfidence == 88
OtherConfidence == 60
ErrorConfidence == 0
LowConfidenceThreshold == 65

-----------------------------------------------------------------------------
(* Literals of the source *)

FEW_SHOT == "few_shot_examples"
DEFINITION_BASED == "definition_based"
UNSUPERVISED == "unsupervised_anomaly"

ERROR_MARK == <<"Error:">>
REVIEW_NEEDED == <<"Review_Needed">>
REVIEW_PREFIX == <<"Review_Needed", ":", SP>>
LOW_CONFIDENCE_SUFFIX == <<SP, "(Low Confidence)">>

UNCERTAIN == <<"Uncertain">>
UNCATEGORIZED == <<"Uncategorized">>
EMPTY_INVALID == <<"Empty/Invalid">>
ANOMALY == <<"Anomaly">>
PARSING_FAILED == <<"Error:", SP, "Parsing Failed">>
LLM_OUTPUT_TYPE == <<"Error:", SP, "LLM Output Type">>
LLM_EXCEPTION == <<"Error:", SP, "LLM Exception">>
NOT_AVAILABLE == <<"N/A">>
UNKNOWN_LABEL == Str(<<"UnknownLabel">>)

-----------------------------------------------------------------------------
(* determine_classification_strategy *)

\* faulty variant: the definitions are looked at before the examples
determine_classification_strategy_DefinitionsFirst(st) ==
    LET current_steps == st.processing_steps
        examples == st.provided_examples
        definitions == st.class_definitions
        target_col == st.target_column_for_classification
    IN  IF target_col = ""
        THEN [st EXCEPT
                !.error_message = Some(<<"Critical: target_column_for_classification is not set in the state.">>),
                !.processing_steps = current_steps \o
                    << <<"determine_classification_strategy: FAILED - No target column">> >>]
        ELSE IF Truthy(definitions)
        THEN [st EXCEPT
                !.classification_mode = Some(DEFINITION_BASED),
                !.processing_steps = current_steps \o
                    << <<"determine_classification_strategy: SUCCESS - Definition-based">> >>]
        ELSE IF Truthy(examples)
        THEN [st EXCEPT
                !.classification_mode = Some(FEW_SHOT),
                !.processing_steps = current_steps \o
                    << <<"determine_classification_strategy: SUCCESS - Few-shot">> >>]
        ELSE [st EXCEPT
                !.classification_mode = Some(UNSUPERVISED),
                !.processing_steps = current_steps \o
                    << <<"determine_classification_strategy: SUCCESS - Unsupervised">> >>]

\* faulty variant: "examples is not None" instead of the truth value of examples
determine_classification_strategy_EmptyExamples(st) ==
    LET current_steps == st.processing_steps
        examples == st.provided_examples
        definitions == st.class_definitions
        target_col == st.target_column_for_classification
    IN  IF target_col = ""
        THEN [st EXCEPT
                !.error_message = Some(<<"Critical: target_column_for_classification is not set in the state.">>),
                !.processing_steps = current_steps \o
                    << <<"determine_classification_strategy: FAILED - No target column">> >>]
        ELSE IF ~IsNone(examples)
        THEN [st EXCEPT
                !.classification_mode = Some(FEW_SHOT),
                !.processing_steps = current_steps \o
                    << <<"determine_classification_strategy: SUCCESS - Few-shot">> >>]
        ELSE IF Truthy(definitions)
        THEN [st EXCEPT
                !.classification_mode = Some(DEFINITION_BASED),
                !.processing_steps = current_steps \o
                    << <<"determine_classification_strategy: SUCCESS - Definition-based">> >>]
        ELSE [st EXCEPT
                !.classification_mode = Some(UNSUPERVISED),
                !.processing_steps = current_steps \o
                    << <<"determine_classification_strategy: SUCCESS - Unsupervised">> >>]

\* faulty variant: the target column name is not checked
determine_classification_strategy_NoTargetCheck(st) ==
    LET current_steps == st.processing_steps
        examples == st.provided_examples
        definitions == st.class_definitions
    IN  IF Truthy(examples)
        THEN [st EXCEPT
                !.classification_mode = Some(FEW_SHOT),
                !.processing_steps = current_steps \o
                    << <<"determine_classification_strategy: SUCCESS - Few-shot">> >>]
        ELSE IF Truthy(definitions)
        THEN [st EXCEPT
                !.classification_mode = Some(DEFINITION_BASED),
                !.processing_steps = current_steps \o
                    << <<"determine_classification_strategy: SUCCESS - Definition-based">> >>]
        ELSE [st EXCEPT
                !.classification_mode = Some(UNSUPERVISED),
                !.processing_steps = current_steps \o
                    << <<"determine_classification_strategy: SUCCESS - Unsupervised">> >>]
\* faulty variant: without examples and definitions no mode is set
determine_classification_strategy_NoFallback(st) ==
    LET current_steps == st.processing_steps
        examples == st.provided_examples
        definitions == st.class_definitions
        target_col == st.target_column_for_classification
    IN  IF target_col = ""
        THEN [st EXCEPT
                !.error_message = Some(<<"Critical: target_column_for_classification is not set in the state.">>),
                !.processing_steps = current_steps \o
                    << <<"determine_classification_strategy: FAILED - No target column">> >>]
        ELSE IF Truthy(examples)
        THEN [st EXCEPT
                !.classification_mode = Some(FEW_SHOT),
                !.processing_steps = current_steps \o
                    << <<"determine_classification_strategy: SUCCESS - Few-shot">> >>]
        ELSE IF Truthy(definitions)
        THEN [st EXCEPT
                !.classification_mode = Some(DEFINITION_BASED),
                !.processing_steps = current_steps \o
                    << <<"determine_classification_strategy: SUCCESS - Definition-based">> >>]
        ELSE [st EXCEPT
                !.processing_steps = current_steps \o
                    << <<"determine_classification_strategy: SUCCESS - Unsupervised">> >>]
determine_classification_strategy(st) ==
    LET current_steps == st.processing_steps
        examples == st.provided_examples
        definitions == st.class_definitions
        target_col == st.target_column_for_classification
    IN  IF target_col = ""
        THEN [st EXCEPT
                !.error_message = Some(<<"Critical: target_column_for_classification is not set in the state.">>),
                !.processing_steps = current_steps \o
                    << <<"determine_classification_strategy: FAILED - No target column">> >>]
        ELSE IF Truthy(examples)
        THEN [st EXCEPT
                !.classification_mode = Some(FEW_SHOT),
                !.processing_steps = current_steps \o
                    << <<"determine_classification_strategy: SUCCESS - Few-shot">> >>]
        ELSE IF Truthy(definitions)
        THEN [st EXCEPT
                !.classification_mode = Some(DEFINITION_BASED),
                !.processing_steps = current_steps \o
                    << <<"determine_classification_strategy: SUCCESS - Definition-based">> >>]
        ELSE [st EXCEPT
                !.classification_mode = Some(UNSUPERVISED),
                !.processing_steps = current_steps \o
                    << <<"determine_classification_strategy: SUCCESS - Unsupervised">> >>]

-----------------------------------------------------------------------------
(* validate_row_data *)

\* the handler of 'except Exception' formats the value into the error text;
\* when that raises too, the exception leaves the node
validate_row_data_raises(st) ==
    LET row == st.input_row
        target_col == st.target_column_for_classification
    IN  /\ ~Truthy(st.error_message)
        /\ row # <<>>
        /\ RowHas(row, target_col)
        /\ ~IsStr(RowAt(row, target_col))
        /\ ~StrOk(RowAt(row, target_col))
        /\ ~FormatOk(RowAt(row, target_col))

\* faulty variant: a row without the target column passes validation
validate_row_data_NoMissingCheck(st) ==
    LET current_steps == st.processing_steps
        row == st.input_row
        target_col == st.target_column_for_classification
    IN  IF Truthy(st.error_message)
        THEN [st EXCEPT !.processing_steps = current_steps \o
                    << <<"validate_row_data: SKIPPED due to prior error">> >>]
        ELSE IF row = <<>>
        THEN [st EXCEPT
                !.error_message = Some(<<"Input row is missing.">>),
                !.processing_steps = current_steps \o
                    << <<"validate_row_data: FAILED - No input row">> >>]
        ELSE IF ~RowHas(row, target_col)
        THEN [st EXCEPT !.processing_steps = current_steps \o
                    << <<"validate_row_data: SUCCESS">> >>]
        ELSE IF FALSE
        THEN [st EXCEPT
                !.error_message = Some(<<"Target column '", target_col,
                                         "' not found in the input row: ">>
                                       \o KeysText(row) \o <<".">>),
                !.processing_steps = current_steps \o
                    << <<"validate_row_data: FAILED - Missing target column '", target_col, "'">> >>]
        ELSE IF ~IsStr(RowAt(row, target_col))
        THEN IF StrOk(RowAt(row, target_col))
             THEN [st EXCEPT
                     !.input_row = RowSet(row, target_col,
                                          Str(StrOf(RowAt(row, target_col)))),
                     !.processing_steps = current_steps \o
                         << <<"validate_row_data: WARNING - Converted target column to string">>,
                            <<"validate_row_data: SUCCESS">> >>]
             ELSE [st EXCEPT
                     !.error_message = Some(<<"Target column '", target_col,
                                              "' is not a string and could not be converted. Value: ",
                                              "<object>", " (Type: ", "<class>", ").">>),
                     !.processing_steps = current_steps \o
                         << <<"validate_row_data: FAILED - Invalid type for '", target_col, "'">> >>]
        ELSE [st EXCEPT !.processing_steps = current_steps \o
                    << <<"validate_row_data: SUCCESS">> >>]

\* faulty variant: the converted value is not stored back into the row
validate_row_data_NoStore(st) ==
    LET current_steps == st.processing_steps
        row == st.input_row
        target_col == st.target_column_for_classification
    IN  IF Truthy(st.error_message)
        THEN [st EXCEPT !.processing_steps = current_steps \o
                    << <<"validate_row_data: SKIPPED due to prior error">> >>]
        ELSE IF row = <<>>
        THEN [st EXCEPT
                !.error_message = Some(<<"Input row is missing.">>),
                !.processing_steps = current_steps \o
                    << <<"validate_row_data: FAILED - No input row">> >>]
        ELSE IF ~RowHas(row, target_col)
        THEN [st EXCEPT
                !.error_message = Some(<<"Target column '", target_col,
                                         "' not found in the input row: ">>
                                       \o KeysText(row) \o <<".">>),
                !.processing_steps = current_steps \o
                    << <<"validate_row_data: FAILED - Missing target column '", target_col, "'">> >>]
        ELSE IF ~IsStr(RowAt(row, target_col))
        THEN IF StrOk(RowAt(row, target_col))
             THEN [st EXCEPT
                     !.processing_steps = current_steps \o
                         << <<"validate_row_data: WARNING - Converted target column to string">>,
                            <<"validate_row_data: SUCCESS">> >>]
             ELSE [st EXCEPT
                     !.error_message = Some(<<"Target column '", target_col,
                                              "' is not a string and could not be converted. Value: ",
                                              "<object>", " (Type: ", "<class>", ").">>),
                     !.processing_steps = current_steps \o
                         << <<"validate_row_data: FAILED - Invalid type for '", target_col, "'">> >>]
        ELSE [st EXCEPT !.processing_steps = current_steps \o
                    << <<"validate_row_data: SUCCESS">> >>]

\* faulty variant: a row whose error is set is passed on without a trace entry
validate_row_data_SilentSkip(st) ==
    LET current_steps == st.processing_steps
        row == st.input_row
        target_col == st.target_column_for_classification
    IN  IF Truthy(st.error_message)
        THEN st
        ELSE IF row = <<>>
        THEN [st EXCEPT
                !.error_message = Some(<<"Input row is missing.">>),
                !.processing_steps = current_steps \o
                    << <<"validate_row_data: FAILED - No input row">> >>]
        ELSE IF ~RowHas(row, target_col)
        THEN [st EXCEPT
                !.error_message = Some(<<"Target column '", target_col,
                                         "' not found in the input row: ">>
                                       \o KeysText(row) \o <<".">>),
                !.processing_steps = current_steps \o
                    << <<"validate_row_data: FAILED - Missing target column '", target_col, "'">> >>]
        ELSE IF ~IsStr(RowAt(row, target_col))
        THEN IF StrOk(RowAt(row, target_col))
             THEN [st EXCEPT
                     !.input_row = RowSet(row, target_col,
                                          Str(StrOf(RowAt(row, target_col)))),
                     !.processing_steps = current_steps \o
                         << <<"validate_row_data: WARNING - Converted target column to string">>,
                            <<"validate_row_data: SUCCESS">> >>]
             ELSE [st EXCEPT
                     !.error_message = Some(<<"Target column '", target_col,
                                              "' is not a string and could not be converted. Value: ",
                                              "<object>", " (Type: ", "<class>", ").">>),
                     !.processing_steps = current_steps \o
                         << <<"validate_row_data: FAILED - Invalid type for '", target_col, "'">> >>]
        ELSE [st EXCEPT !.processing_steps = current_steps \o
                    << <<"validate_row_data: SUCCESS">> >>]
validate_row_data(st) ==
    LET current_steps == st.processing_steps
        row == st.input_row
        target_col == st.target_column_for_classification
    IN  IF Truthy(st.error_message)
        THEN [st EXCEPT !.processing_steps = current_steps \o
                    << <<"validate_row_data: SKIPPED due to prior error">> >>]
        ELSE IF row = <<>>
        THEN [st EXCEPT
                !.error_message = Some(<<"Input row is missing.">>),
                !.processing_steps = current_steps \o
                    << <<"validate_row_data: FAILED - No input row">> >>]
        ELSE IF ~RowHas(row, target_col)
        THEN [st EXCEPT
                !.error_message = Some(<<"Target column '", target_col,
                                         "' not found in the input row: ">>
                                       \o KeysText(row) \o <<".">>),
                !.processing_steps = current_steps \o
                    << <<"validate_row_data: FAILED - Missing target column '", target_col, "'">> >>]
        ELSE IF ~IsStr(RowAt(row, target_col))
        THEN IF StrOk(RowAt(row, target_col))
             THEN [st EXCEPT
                     !.input_row = RowSet(row, target_col,
                                          Str(StrOf(RowAt(row, target_col)))),
                     !.processing_steps = current_steps \o
                         << <<"validate_row_data: WARNING - Converted target column to string">>,
                            <<"validate_row_data: SUCCESS">> >>]
             ELSE [st EXCEPT
                     !.error_message = Some(<<"Target column '", target_col,
                                              "' is not a string and could not be converted. Value: ",
                                              "<object>", " (Type: ", "<class>", ").">>),
                     !.processing_steps = current_steps \o
                         << <<"validate_row_data: FAILED - Invalid type for '", target_col, "'">> >>]
        ELSE [st EXCEPT !.processing_steps = current_steps \o
                    << <<"validate_row_data: SUCCESS">> >>]

-----------------------------------------------------------------------------
(* prepare_llm_input_node *)

\* order of str values, for sorted(): tokens in code-point order
TokenOrder == <<"Inquiry", "Uncertain", "UnknownLabel", "Urgent">>

TokRank(t) == IF \E i \in 1..Len(TokenOrder) : TokenOrder[i] = t
              THEN CHOOSE i \in 1..Len(TokenOrder) : TokenOrder[i] = t
              ELSE 0

RECURSIVE TextLess(_, _)
TextLess(a, b) ==
    IF b = <<>> THEN FALSE
    ELSE IF a = <<>> THEN TRUE
    ELSE IF Head(a) = Head(b) THEN TextLess(Tail(a), Tail(b))
    ELSE TokRank(Head(a)) < TokRank(Head(b))

\* sorted(list(S)) for a set S of str
RECURSIVE Sorted(_)
Sorted(S) ==
    IF S = {} THEN <<>>
    ELSE LET m == CHOOSE x \in S : \A y \in S \ {x} : TextLess(x, y)
         IN  <<m>> \o Sorted(S \ {m})

\* the label values of the examples: ex.get(label_col, 'UnknownLabel')
ExampleLabel(ex, label_col) ==
    IF IsNone(label_col) THEN UNKNOWN_LABEL ELSE RowGet(ex, Val(label_col), UNKNOWN_LABEL)

\* the target values of the examples: ex.get(target_col, '')
ExampleText(ex, target_col) == RowGet(ex, target_col, Str(<<>>))

\* ', '.join(...) raises TypeError on a label that is not a str
prepare_llm_input_node_raises(st) ==
    /\ ~Truthy(st.error_message)
    /\ st.classification_mode = Some(FEW_SHOT)
    /\ \E i \in 1..Len(Val(st.provided_examples)) :
          ~IsStr(ExampleLabel(Val(st.provided_examples)[i], st.label_column_name))

UnsupervisedPrompt(text_to_classify) ==
    <<"Analyze the following text data from a dataset: '">> \o text_to_classify \o
    <<"'.", NL, "Identify its key characteristics. [...] If anomalous, state 'Category: Anomaly'. If the text is empty or clearly invalid, state 'Category: Empty/Invalid'.">>

FewShotPrompt(text_to_classify, examples, target_col, label_col) ==
    LET formatted_examples ==
            Join(<<NL>>, [i \in 1..Len(examples) |->
                <<"- Text: \"">> \o StrOf(ExampleText(examples[i], target_col)) \o
                <<"\" -> Category: ">> \o StrOf(ExampleLabel(examples[i], label_col))])
        categories == {StrOf(ExampleLabel(examples[i], label_col)) : i \in 1..Len(examples)}
    IN  <<"You are an expert text classifier. Given the following examples (categories seen: ">>
        \o Join(<<", ">>, Sorted(categories)) \o <<"):", NL>>
        \o formatted_examples \o <<NL, NL>>
        \o <<"Now, classify the following text: '">> \o text_to_classify \o <<"'", NL>>
        \o <<"Provide only the category name from the examples. If unsure or if it doesn't fit, state 'Uncertain'.", NL, "Category:">>

DefinitionPrompt(text_to_classify, definitions) ==
    LET formatted_definitions ==
            Join(<<NL>>, [i \in 1..Len(definitions) |->
                <<"- ">> \o definitions[i].k \o <<":", SP>> \o definitions[i].v])
        category_names == Keys(definitions)
    IN  <<"You are an expert text classifier. Use ONLY the following category definitions to classify the text below:", NL, NL,
          "Definitions:", NL>>
        \o formatted_definitions \o <<NL, NL>>
        \o <<"Text to classify: '">> \o text_to_classify \o <<"'", NL>>
        \o <<"Provide the most fitting category name from this list: ">>
        \o Join(<<", ">>, category_names)
        \o <<". If none fit well, state 'Uncategorized'.", NL, "Category:">>

prepare_llm_input_node(st) ==
    LET current_steps == st.processing_steps
        mode == st.classification_mode
        row_data == st.input_row
        target_col == st.target_column_for_classification
        text_to_classify == StrOf(RowGet(row_data, target_col, Str(<<>>)))
    IN  IF Truthy(st.error_message)
        THEN [st EXCEPT !.processing_steps = current_steps \o
                    << <<"prepare_llm_input_node: SKIPPED due to error">> >>]
        ELSE IF mode \notin {Some(UNSUPERVISED), Some(FEW_SHOT), Some(DEFINITION_BASED)}
        THEN [st EXCEPT
                !.error_message = Some(<<"Unknown classification mode: ">> \o
                                       (IF IsNone(mode) THEN <<"None">> ELSE mode)),
                !.processing_steps = current_steps \o
                    << <<"prepare_llm_input_node: FAILED - Unknown mode ">> \o
                       (IF IsNone(mode) THEN <<"None">> ELSE mode) >>]
        ELSE [st EXCEPT
                !.llm_prompt = Some(
                    IF mode = Some(UNSUPERVISED) THEN UnsupervisedPrompt(text_to_classify)
                    ELSE IF mode = Some(FEW_SHOT)
                    THEN FewShotPrompt(text_to_classify, Val(st.provided_examples),
                                       target_col, st.label_column_name)
                    ELSE DefinitionPrompt(text_to_classify, Val(st.class_definitions))),
                !.processing_steps = current_steps \o
                    << <<"prepare_llm_input_node: SUCCESS - Mode ", Val(mode)>> >>]

-----------------------------------------------------------------------------
(* llm_classification_agent *)

\* what llm_client.invoke does: return a str, return something else, or raise.
\* text is the returned str, str() of the returned object, or str(e).
TextResponse(s) == [kind |-> "text", text |-> s]
NonTextResponse(s) == [kind |-> "nontext", text |-> s]
RaisedResponse(s) == [kind |-> "raise", text |-> s]
\* a returned object whose str() raises: formatting it (line 217, line 265)
\* raises inside the try block; text is str(e) of that exception
UnprintableResponse(s) == [kind |-> "unprintable", text |-> s]

\* the except branch is taken: the call raised, or formatting its result did
EndsInExcept(response) == response.kind \in {"raise", "unprintable"}

\* the text up to the first line break: what (.*) matches
RECURSIVE UpToNL(_)
UpToNL(s) == IF s = <<>> \/ Head(s) = NL THEN <<>> ELSE <<Head(s)>> \o UpToNL(Tail(s))

\* re.search(marker + r"\s*(.*)", s, re.IGNORECASE): None, or group(1)
RegexGroup(marker, s) ==
    LET found == {i \in 1..Len(s) : LowerTok(s[i]) = marker}
    IN  IF found = {} THEN None
        ELSE LET i == CHOOSE j \in found : \A k \in found : j <= k
             IN  Some(UpToNL(LStrip(SubSeq(s, i + 1, Len(s)))))

\* any(ex.get(label_col) == parsed_category for ex in examples)
IsExampleLabel(examples, label_col, parsed_category) ==
    /\ ~IsNone(label_col)
    /\ \E i \in 1..Len(examples) :
          /\ RowHas(examples[i], Val(label_col))
          /\ IsStr(RowAt(examples[i], Val(label_col)))
          /\ RowAt(examples[i], Val(label_col)).s = parsed_category

\* parsed category, reasoning and confidence of a str response
\* faulty variant: "Empty/Invalid" gets the confidence of any other category
ParseUnsupervised_NoEmptyInvalid(raw_llm_response) ==
    LET category_match == RegexGroup("category:", raw_llm_response)
        reasoning_match == RegexGroup("reasoning:", raw_llm_response)
        parsed_category == IF IsNone(category_match) THEN PARSING_FAILED
                           ELSE Strip(Val(category_match))
        parsed_reasoning == IF IsNone(reasoning_match) THEN None
                            ELSE Some(Strip(Val(reasoning_match)))
    IN  [category |-> parsed_category,
         reasoning |-> parsed_reasoning,
         confidence |-> IF parsed_category = ANOMALY THEN AnomalyConfidence
                        ELSE UnsupervisedConfidence]
\* faulty variant: without a marker the whole response is the category
ParseUnsupervised_WholeResponse(raw_llm_response) ==
    LET category_match == RegexGroup("category:", raw_llm_response)
        reasoning_match == RegexGroup("reasoning:", raw_llm_response)
        parsed_category == IF IsNone(category_match) THEN raw_llm_response
                           ELSE Strip(Val(category_match))
        parsed_reasoning == IF IsNone(reasoning_match) THEN None
                            ELSE Some(Strip(Val(reasoning_match)))
    IN  [category |-> parsed_category,
         reasoning |-> parsed_reasoning,
         confidence |-> IF parsed_category = ANOMALY THEN AnomalyConfidence
                        ELSE IF parsed_category = EMPTY_INVALID THEN EmptyInvalidConfidence
                        ELSE UnsupervisedConfidence]
\* faulty variant: "Anomaly" gets the confidence of any other category
ParseUnsupervised_NoAnomaly(raw_llm_response) ==
    LET category_match == RegexGroup("category:", raw_llm_response)
        reasoning_match == RegexGroup("reasoning:", raw_llm_response)
        parsed_category == IF IsNone(category_match) THEN PARSING_FAILED
                           ELSE Strip(Val(category_match))
        parsed_reasoning == IF IsNone(reasoning_match) THEN None
                            ELSE Some(Strip(Val(reasoning_match)))
    IN  [category |-> parsed_category,
         reasoning |-> parsed_reasoning,
         confidence |-> IF parsed_category = EMPTY_INVALID THEN EmptyInvalidConfidence
                        ELSE UnsupervisedConfidence]
\* faulty variant: any other category gets the confidence 0.60
ParseUnsupervised_LowDefault(raw_llm_response) ==
    LET category_match == RegexGroup("category:", raw_llm_response)
        reasoning_match == RegexGroup("reasoning:", raw_llm_response)
        parsed_category == IF IsNone(category_match) THEN PARSING_FAILED
                           ELSE Strip(Val(category_match))
        parsed_reasoning == IF IsNone(reasoning_match) THEN None
                            ELSE Some(Strip(Val(reasoning_match)))
    IN  [category |-> parsed_category,
         reasoning |-> parsed_reasoning,
         confidence |-> IF parsed_category = ANOMALY THEN AnomalyConfidence
                        ELSE IF parsed_category = EMPTY_INVALID THEN EmptyInvalidConfidence
                        ELSE OtherConfidence]
ParseUnsupervised(raw_llm_response) ==
    LET category_match == RegexGroup("category:", raw_llm_response)
        reasoning_match == RegexGroup("reasoning:", raw_llm_response)
        parsed_category == IF IsNone(category_match) THEN PARSING_FAILED
                           ELSE Strip(Val(category_match))
        parsed_reasoning == IF IsNone(reasoning_match) THEN None
                            ELSE Some(Strip(Val(reasoning_match)))
    IN  [category |-> parsed_category,
         reasoning |-> parsed_reasoning,
         confidence |-> IF parsed_category = ANOMALY THEN AnomalyConfidence
                        ELSE IF parsed_category = EMPTY_INVALID THEN EmptyInvalidConfidence
                        ELSE UnsupervisedConfidence]

\* faulty variant: the labels of the examples are not looked at
ParseSupervised_NoExampleCheck(st, raw_llm_response) ==
    LET parsed_category ==
            IF StartsWith(Lower(raw_llm_response), <<"category:">>)
            THEN Strip(Tail(raw_llm_response))
            ELSE raw_llm_response
    IN  [category |-> parsed_category,
         reasoning |-> None,
         confidence |->
            IF parsed_category = UNCERTAIN \/ parsed_category = UNCATEGORIZED
            THEN UncertainConfidence
            ELSE IF Truthy(st.class_definitions)
                    /\ RowHas(Val(st.class_definitions), parsed_category)
            THEN DefinitionConfidence
            ELSE OtherConfidence]
\* faulty variant: the labels of the examples are tried before the definitions
ParseSupervised_ExamplesFirst(st, raw_llm_response) ==
    LET parsed_category ==
            IF StartsWith(Lower(raw_llm_response), <<"category:">>)
            THEN Strip(Tail(raw_llm_response))
            ELSE raw_llm_response
    IN  [category |-> parsed_category,
         reasoning |-> None,
         confidence |->
            IF parsed_category = UNCERTAIN \/ parsed_category = UNCATEGORIZED
            THEN UncertainConfidence
            ELSE IF Truthy(st.provided_examples)
                    /\ IsExampleLabel(Val(st.provided_examples), st.label_column_name,
                                      parsed_category)
            THEN ExampleConfidence
            ELSE IF Truthy(st.class_definitions)
                    /\ RowHas(Val(st.class_definitions), parsed_category)
            THEN DefinitionConfidence
            ELSE OtherConfidence]
ParseSupervised(st, raw_llm_response) ==
    LET parsed_category ==
            IF StartsWith(Lower(raw_llm_response), <<"category:">>)
            THEN Strip(Tail(raw_llm_response))
            ELSE raw_llm_response
    IN  [category |-> parsed_category,
         reasoning |-> None,
         confidence |->
            IF parsed_category = UNCERTAIN \/ parsed_category = UNCATEGORIZED
            THEN UncertainConfidence
            ELSE IF Truthy(st.class_definitions)
                    /\ RowHas(Val(st.class_definitions), parsed_category)
            THEN DefinitionConfidence
            ELSE IF Truthy(st.provided_examples)
                    /\ IsExampleLabel(Val(st.provided_examples), st.label_column_name,
                                      parsed_category)
            THEN ExampleConfidence
            ELSE OtherConfidence]

ParseResponse(st, raw_llm_response) ==
    IF st.classification_mode = Some(UNSUPERVISED)
    THEN ParseUnsupervised(raw_llm_response)
    ELSE IF st.classification_mode \in {Some(FEW_SHOT), Some(DEFINITION_BASED)}
    THEN ParseSupervised(st, raw_llm_response)
    ELSE [category |-> PARSING_FAILED, reasoning |-> None, confidence |-> DefaultConfidence]

\* the node does not call the client
llm_classification_agent_skips(st) == Truthy(st.error_message) \/ ~Truthy(st.llm_prompt)

\* faulty variant: a response that is not a str also sets the confidence to 0
llm_classification_agent_NonTextZeroConfidence(st, response) ==
    LET current_steps == st.processing_steps
        parsed == ParseResponse(st, Strip(response.text))
    IN  IF llm_classification_agent_skips(st)
        THEN [st EXCEPT !.processing_steps = current_steps \o
                    << <<"llm_classification_agent: SKIPPED">> >>]
        ELSE IF EndsInExcept(response)
        THEN [st EXCEPT
                !.error_message = Some(<<"LLM call/parsing failed: ">> \o response.text),
                !.classification_category = Some(LLM_EXCEPTION),
                !.llm_reasoning = None,
                !.confidence_score = Some(ErrorConfidence),
                !.processing_steps = current_steps \o
                    << <<"llm_classification_agent: ", "FAILED">> >>]
        ELSE IF response.kind = "text"
        THEN [st EXCEPT
                !.classification_category = Some(parsed.category),
                !.llm_reasoning = IF Truthy(parsed.reasoning) THEN parsed.reasoning
                                  ELSE Some(NOT_AVAILABLE),
                !.confidence_score = Some(parsed.confidence),
                !.processing_steps = current_steps \o
                    << <<"llm_classification_agent: ">> \o parsed.category >>]
        ELSE [st EXCEPT
                !.error_message = Some(<<"LLM response was not a string. Cannot parse.">>),
                !.classification_category = Some(LLM_OUTPUT_TYPE),
                !.llm_reasoning = Some(response.text),
                !.confidence_score = Some(ErrorConfidence),
                !.processing_steps = current_steps \o
                    << <<"llm_classification_agent: ", "FAILED">> >>]
llm_classification_agent(st, response) ==
    LET current_steps == st.processing_steps
        parsed == ParseResponse(st, Strip(response.text))
    IN  IF llm_classification_agent_skips(st)
        THEN [st EXCEPT !.processing_steps = current_steps \o
                    << <<"llm_classification_agent: SKIPPED">> >>]
        ELSE IF EndsInExcept(response)
        THEN [st EXCEPT
                !.error_message = Some(<<"LLM call/parsing failed: ">> \o response.text),
                !.classification_category = Some(LLM_EXCEPTION),
                !.llm_reasoning = None,
                !.confidence_score = Some(ErrorConfidence),
                !.processing_steps = current_steps \o
                    << <<"llm_classification_agent: ", "FAILED">> >>]
        ELSE IF response.kind = "text"
        THEN [st EXCEPT
                !.classification_category = Some(parsed.category),
                !.llm_reasoning = IF Truthy(parsed.reasoning) THEN parsed.reasoning
                                  ELSE Some(NOT_AVAILABLE),
                !.confidence_score = Some(parsed.confidence),
                !.processing_steps = current_steps \o
                    << <<"llm_classification_agent: ">> \o parsed.category >>]
        ELSE [st EXCEPT
                !.error_message = Some(<<"LLM response was not a string. Cannot parse.">>),
                !.classification_category = Some(LLM_OUTPUT_TYPE),
                !.llm_reasoning = Some(response.text),
                !.processing_steps = current_steps \o
                    << <<"llm_classification_agent: ", "FAILED">> >>]

-----------------------------------------------------------------------------
(* quality_check_node *)

\* faulty variant: the low-confidence rule is tried before the uncertainty rule
quality_check_node_ConfidenceFirst(st) ==
    LET current_steps == st.processing_steps
        confidence == st.confidence_score
        category == st.classification_category
    IN  IF Truthy(st.error_message)
        THEN [st EXCEPT !.processing_steps = current_steps \o
                    << <<"quality_check_node: SKIPPED">> >>]
        ELSE IF Truthy(category) /\ Contains(Val(category), ERROR_MARK)
        THEN [st EXCEPT
                !.classification_category = Some(REVIEW_PREFIX \o Val(category)),
                !.processing_steps = current_steps \o
                    << <<"quality_check_node: FLAGGED FOR REVIEW - ">> \o Val(category) >>]
        ELSE IF ~IsNone(confidence) /\ Val(confidence) < LowConfidenceThreshold
        THEN [st EXCEPT
                !.classification_category =
                    Some(REVIEW_PREFIX
                         \o (IF IsNone(category) THEN <<"None">> ELSE Val(category))
                         \o LOW_CONFIDENCE_SUFFIX),
                !.processing_steps = current_steps \o
                    << <<"quality_check_node: FLAGGED FOR REVIEW - Low Confidence">> >>]
        ELSE IF category \in {Some(UNCERTAIN), Some(UNCATEGORIZED), Some(EMPTY_INVALID)}
        THEN [st EXCEPT
                !.classification_category = Some(REVIEW_PREFIX \o Val(category)),
                !.processing_steps = current_steps \o
                    << <<"quality_check_node: FLAGGED FOR REVIEW - ">> \o Val(category) >>]
        ELSE [st EXCEPT !.processing_steps = current_steps \o
                    << <<"quality_check_node: PASSED">> >>]

\* faulty variant: the gate does not skip a row whose error is set
quality_check_node_NoSkip(st) ==
    LET current_steps == st.processing_steps
        confidence == st.confidence_score
        category == st.classification_category
    IN  IF Truthy(category) /\ Contains(Val(category), ERROR_MARK)
        THEN [st EXCEPT
                !.classification_category = Some(REVIEW_PREFIX \o Val(category)),
                !.processing_steps = current_steps \o
                    << <<"quality_check_node: FLAGGED FOR REVIEW - ">> \o Val(category) >>]
        ELSE IF category \in {Some(UNCERTAIN), Some(UNCATEGORIZED), Some(EMPTY_INVALID)}
        THEN [st EXCEPT
                !.classification_category = Some(REVIEW_PREFIX \o Val(category)),
                !.processing_steps = current_steps \o
                    << <<"quality_check_node: FLAGGED FOR REVIEW - ">> \o Val(category) >>]
        ELSE IF ~IsNone(confidence) /\ Val(confidence) < LowConfidenceThreshold
        THEN [st EXCEPT
                !.classification_category =
                    Some(REVIEW_PREFIX
                         \o (IF IsNone(category) THEN <<"None">> ELSE Val(category))
                         \o LOW_CONFIDENCE_SUFFIX),
                !.processing_steps = current_steps \o
                    << <<"quality_check_node: FLAGGED FOR REVIEW - Low Confidence">> >>]
        ELSE [st EXCEPT !.processing_steps = current_steps \o
                    << <<"quality_check_node: PASSED">> >>]
\* faulty variant: the low-confidence rule is tried before the error rule
quality_check_node_ErrorAfterConfidence(st) ==
    LET current_steps == st.processing_steps
        confidence == st.confidence_score
        category == st.classification_category
    IN  IF Truthy(st.error_message)
        THEN [st EXCEPT !.processing_steps = current_steps \o
                    << <<"quality_check_node: SKIPPED">> >>]
        ELSE IF ~IsNone(confidence) /\ Val(confidence) < LowConfidenceThreshold
                /\ category \notin {Some(UNCERTAIN), Some(UNCATEGORIZED), Some(EMPTY_INVALID)}
        THEN [st EXCEPT
                !.classification_category =
                    Some(REVIEW_PREFIX
                         \o (IF IsNone(category) THEN <<"None">> ELSE Val(category))
                         \o LOW_CONFIDENCE_SUFFIX),
                !.processing_steps = current_steps \o
                    << <<"quality_check_node: FLAGGED FOR REVIEW - Low Confidence">> >>]
        ELSE IF Truthy(category) /\ Contains(Val(category), ERROR_MARK)
        THEN [st EXCEPT
                !.classification_category = Some(REVIEW_PREFIX \o Val(category)),
                !.processing_steps = current_steps \o
                    << <<"quality_check_node: FLAGGED FOR REVIEW - ">> \o Val(category) >>]
        ELSE IF category \in {Some(UNCERTAIN), Some(UNCATEGORIZED), Some(EMPTY_INVALID)}
        THEN [st EXCEPT
                !.classification_category = Some(REVIEW_PREFIX \o Val(category)),
                !.processing_steps = current_steps \o
                    << <<"quality_check_node: FLAGGED FOR REVIEW - ">> \o Val(category) >>]
        ELSE [st EXCEPT !.processing_steps = current_steps \o
                    << <<"quality_check_node: PASSED">> >>]
\* faulty variant: a low confidence is reported as an error of the row
quality_check_node_FlagIsError(st) ==
    LET current_steps == st.processing_steps
        confidence == st.confidence_score
        category == st.classification_category
    IN  IF Truthy(st.error_message)
        THEN [st EXCEPT !.processing_steps = current_steps \o
                    << <<"quality_check_node: SKIPPED">> >>]
        ELSE IF Truthy(category) /\ Contains(Val(category), ERROR_MARK)
        THEN [st EXCEPT
                !.classification_category = Some(REVIEW_PREFIX \o Val(category)),
                !.processing_steps = current_steps \o
                    << <<"quality_check_node: FLAGGED FOR REVIEW - ">> \o Val(category) >>]
        ELSE IF category \in {Some(UNCERTAIN), Some(UNCATEGORIZED), Some(EMPTY_INVALID)}
        THEN [st EXCEPT
                !.classification_category = Some(REVIEW_PREFIX \o Val(category)),
                !.processing_steps = current_steps \o
                    << <<"quality_check_node: FLAGGED FOR REVIEW - ">> \o Val(category) >>]
        ELSE IF ~IsNone(confidence) /\ Val(confidence) < LowConfidenceThreshold
        THEN [st EXCEPT
                !.classification_category =
                    Some(REVIEW_PREFIX
                         \o (IF IsNone(category) THEN <<"None">> ELSE Val(category))
                         \o LOW_CONFIDENCE_SUFFIX),
                !.error_message = Some(<<"Low confidence">>),
                !.processing_steps = current_steps \o
                    << <<"quality_check_node: FLAGGED FOR REVIEW - Low Confidence">> >>]
        ELSE [st EXCEPT !.processing_steps = current_steps \o
                    << <<"quality_check_node: PASSED">> >>]
\* faulty variant: a category that contains "Error:" is not flagged
quality_check_node_NoErrorRule(st) ==
    LET current_steps == st.processing_steps
        confidence == st.confidence_score
        category == st.classification_category
    IN  IF Truthy(st.error_message)
        THEN [st EXCEPT !.processing_steps = current_steps \o
                    << <<"quality_check_node: SKIPPED">> >>]
        ELSE IF category \in {Some(UNCERTAIN), Some(UNCATEGORIZED), Some(EMPTY_INVALID)}
        THEN [st EXCEPT
                !.classification_category = Some(REVIEW_PREFIX \o Val(category)),
                !.processing_steps = current_steps \o
                    << <<"quality_check_node: FLAGGED FOR REVIEW - ">> \o Val(category) >>]
        ELSE IF ~IsNone(confidence) /\ Val(confidence) < LowConfidenceThreshold
        THEN [st EXCEPT
                !.classification_category =
                    Some(REVIEW_PREFIX
                         \o (IF IsNone(category) THEN <<"None">> ELSE Val(category))
                         \o LOW_CONFIDENCE_SUFFIX),
                !.processing_steps = current_steps \o
                    << <<"quality_check_node: FLAGGED FOR REVIEW - Low Confidence">> >>]
        ELSE [st EXCEPT !.processing_steps = current_steps \o
                    << <<"quality_check_node: PASSED">> >>]
quality_check_node(st) ==
    LET current_steps == st.processing_steps
        confidence == st.confidence_score
        category == st.classification_category
    IN  IF Truthy(st.error_message)
        THEN [st EXCEPT !.processing_steps = current_steps \o
                    << <<"quality_check_node: SKIPPED">> >>]
        ELSE IF Truthy(category) /\ Contains(Val(category), ERROR_MARK)
        THEN [st EXCEPT
                !.classification_category = Some(REVIEW_PREFIX \o Val(category)),
                !.processing_steps = current_steps \o
                    << <<"quality_check_node: FLAGGED FOR REVIEW - ">> \o Val(category) >>]
        ELSE IF category \in {Some(UNCERTAIN), Some(UNCATEGORIZED), Some(EMPTY_INVALID)}
        THEN [st EXCEPT
                !.classification_category = Some(REVIEW_PREFIX \o Val(category)),
                !.processing_steps = current_steps \o
                    << <<"quality_check_node: FLAGGED FOR REVIEW - ">> \o Val(category) >>]
        ELSE IF ~IsNone(confidence) /\ Val(confidence) < LowConfidenceThreshold
        THEN [st EXCEPT
                !.classification_category =
                    Some(REVIEW_PREFIX
                         \o (IF IsNone(category) THEN <<"None">> ELSE Val(category))
                         \o LOW_CONFIDENCE_SUFFIX),
                !.processing_steps = current_steps \o
                    << <<"quality_check_node: FLAGGED FOR REVIEW - Low Confidence">> >>]
        ELSE [st EXCEPT !.processing_steps = current_steps \o
                    << <<"quality_check_node: PASSED">> >>]

-----------------------------------------------------------------------------
(* decide_next_step *)

HANDLE_ERROR == "handle_error"
END == "__end__"

\* state.get("classification_category", "").startswith(...) raises
\* AttributeError when the key holds None
decide_next_step_raises(st) ==
    ~Truthy(st.error_message) /\ IsNone(st.classification_category)

\* faulty variant: a category that needs review is sent to the error handler
decide_next_step_ReviewToHandler(st) ==
    IF Truthy(st.error_message) THEN HANDLE_ERROR
    ELSE IF StartsWith(Val(st.classification_category), REVIEW_NEEDED) THEN HANDLE_ERROR
    ELSE END
decide_next_step(st) ==
    IF Truthy(st.error_message) THEN HANDLE_ERROR
    ELSE IF StartsWith(Val(st.classification_category), REVIEW_NEEDED) THEN END
    ELSE END

-----------------------------------------------------------------------------
(* error_handling_node *)

\* state.get("classification_category", "").startswith("Error:") raises
\* AttributeError when the key holds None: the default of get() is used only
\* for a missing key, and initial_state sets every key
error_handling_node_raises(st) == IsNone(st.classification_category)

\* faulty variant: the category is overwritten also when it starts with "Error:"
error_handling_node_AlwaysOverwrite(st) ==
    LET current_steps == st.processing_steps
        error == IF IsNone(st.error_message) THEN <<"None">> ELSE Val(st.error_message)
    IN  [st EXCEPT
            !.processing_steps = current_steps \o
                << <<"error_handling_node: Logged - ">> \o error >>,
            !.classification_category =
                Some(<<"Error:", SP>> \o error),
            !.confidence_score = Some(ErrorConfidence)]

\* faulty variant: the error is cleared once it has been logged
error_handling_node_ClearsError(st) ==
    LET current_steps == st.processing_steps
        error == IF IsNone(st.error_message) THEN <<"None">> ELSE Val(st.error_message)
    IN  [st EXCEPT
            !.processing_steps = current_steps \o
                << <<"error_handling_node: Logged - ">> \o error >>,
            !.classification_category =
                IF ~StartsWith(Val(st.classification_category), ERROR_MARK)
                THEN Some(<<"Error:", SP>> \o error)
                ELSE @,
            !.confidence_score = Some(ErrorConfidence),
            !.error_message = None]
error_handling_node(st) ==
    LET current_steps == st.processing_steps
        error == IF IsNone(st.error_message) THEN <<"None">> ELSE Val(st.error_message)
    IN  [st EXCEPT
            !.processing_steps = current_steps \o
                << <<"error_handling_node: Logged - ">> \o error >>,
            !.classification_category =
                IF ~StartsWith(Val(st.classification_category), ERROR_MARK)
                THEN Some(<<"Error:", SP>> \o error)
                ELSE @,
            !.confidence_score = Some(ErrorConfidence)]

-----------------------------------------------------------------------------
(* Inputs of the model *)

TARGET == "text"
LABEL == "label"

\* cell values of the target column
Values == {Str(<<"server down">>), Str(<<>>), Num(42), Obj(TRUE), Obj(FALSE)}

\* rows of a file that has the target column, of a file that lacks it, and
\* the empty row
RowWith(v) == <<Item("id", Num(7)), Item(TARGET, v)>>
RowWithout == <<Item("id", Num(7))>>
RowEmpty == <<>>

\* the rows of one file have the same columns
Frames(n) ==
    [1..n -> {RowWith(v) : v \in Values}] \cup [1..n -> {RowWithout}] \cup [1..n -> {RowEmpty}]

Example(text, label) == <<Item(TARGET, Str(text)), Item(LABEL, label)>>

ExampleSets == {
    <<>>,
    <<Example(<<"please reply soon">>, Str(<<"Inquiry">>)),
      Example(<<"urgent issue now">>, Str(<<"Urgent">>))>>,
    <<Example(<<"not sure">>, Str(<<"Uncertain">>))>>,
    <<Example(<<"urgent issue now">>, Str(<<"Urgent">>)),
      Example(<<"first class">>, Num(1))>> }

DefinitionSets == {
    <<>>,
    <<Item(<<"Urgent">>, <<"needs action now">>),
      Item(<<"Feedback">>, <<"customer satisfaction">>)>> }

Responses == {
    TextResponse(<<"Category:", SP, "Urgent">>),
    TextResponse(<<"Category:", SP, "Inquiry", NL>>),
    TextResponse(<<"Category:", SP, "Uncertain">>),
    TextResponse(<<"Category:", SP, "Uncategorized">>),
    TextResponse(<<"Category:">>),
    TextResponse(<<"Category:", SP, "Empty/Invalid", NL, "Reasoning:", SP, "blank">>),
    TextResponse(<<"CATEGORY:", SP, "Anomaly", NL, "reasoning:", SP, "odd">>),
    TextResponse(<<"no idea">>),
    TextResponse(<<"category:", SP, "Error:", SP, "oops">>),
    NonTextResponse(<<"AIMessage(content='Urgent')">>),
    UnprintableResponse(<<"__str__ returned non-string">>),
    RaisedResponse(<<"timeout">>) }

-----------------------------------------------------------------------------
(* The graph of create_graph and the batch loop of __main__ *)

STRATEGY_DETERMINER == "strategy_determiner"
ROW_VALIDATOR == "row_validator"
PROMPT_PREPARER == "prompt_preparer"
LLM_CLASSIFIER == "llm_classifier"
QUALITY_CHECKER == "quality_checker"
ROUTER == "decide_next_step"
ERROR_HANDLER == "error_handler"
IDLE == "idle"          \* between two iterations of the batch loop
SAVED == "saved"        \* the loop is over and the results are written
CRASHED == "crashed"    \* an exception left app.invoke: the script is dead

initial_state(row) ==
    [provided_examples |-> user_provided_examples,
     class_definitions |-> user_class_definitions,
     target_column_for_classification |-> target_column,
     label_column_name |-> user_label_column_name,
     input_row |-> row,
     classification_mode |-> None,
     llm_prompt |-> None,
     classification_category |-> None,
     confidence_score |-> None,
     llm_reasoning |-> None,
     error_message |-> None,
     processing_steps |-> <<>>]

\* no row is in progress
NoState ==
    [provided_examples |-> None,
     class_definitions |-> None,
     target_column_for_classification |-> "",
     label_column_name |-> None,
     input_row |-> <<>>,
     classification_mode |-> None,
     llm_prompt |-> None,
     classification_category |-> None,
     confidence_score |-> None,
     llm_reasoning |-> None,
     error_message |-> None,
     processing_steps |-> <<>>]

\* the output row: input_row_dict.copy() plus the outputs of the workflow.
\* input_row_dict is the dict the graph was given as input_row, so a value the
\* Row Validator converted in place is copied converted.
output_row(final_state) ==
    [input_row |-> final_state.input_row,
     classification_mode_used |-> final_state.classification_mode,
     llm_classification |-> final_state.classification_category,
     llm_confidence |-> final_state.confidence_score,
     llm_reasoning_output |-> final_state.llm_reasoning,
     processing_error |-> final_state.error_message,
     processing_steps_log |-> Join(<<" | ">>, final_state.processing_steps)]

Init ==
    /\ target_column \in {"", TARGET}
    /\ user_provided_examples \in {None} \cup {Some(e) : e \in ExampleSets}
    /\ user_label_column_name = IF IsNone(user_provided_examples) THEN None ELSE Some(LABEL)
    /\ user_class_definitions \in {None} \cup {Some(d) : d \in DefinitionSets}
    /\ df \in UNION {Frames(n) : n \in 0..MaxRows}
    /\ index = 1
    /\ state = NoState
    /\ pc = IDLE
    /\ results = <<>>
    /\ llm_calls = 0
    /\ llm_log = <<>>
    /\ stub = None
    /\ first_run = None

config == <<target_column, user_label_column_name, user_provided_examples,
            user_class_definitions, df>>

\* for index, row in df.iterrows(): initial_state = {...}; app.invoke(initial_state)
InvokeRow ==
    /\ pc = IDLE
    /\ index <= Len(df)
    /\ state' = initial_state(df[index])
    /\ pc' = STRATEGY_DETERMINER
    /\ llm_calls' = 0
    /\ llm_log' = Append(llm_log, None)
    /\ UNCHANGED <<config, index, results, stub, first_run>>

strategy_determiner ==
    /\ pc = STRATEGY_DETERMINER
    /\ state' = determine_classification_strategy(state)
    /\ pc' = ROW_VALIDATOR
    /\ UNCHANGED <<config, index, results, llm_calls, llm_log, stub, first_run>>

row_validator ==
    /\ pc = ROW_VALIDATOR
    /\ IF validate_row_data_raises(state)
       THEN pc' = CRASHED /\ UNCHANGED state
       ELSE pc' = PROMPT_PREPARER /\ state' = validate_row_data(state)
    /\ UNCHANGED <<config, index, results, llm_calls, llm_log, stub, first_run>>

prompt_preparer ==
    /\ pc = PROMPT_PREPARER
    /\ IF prepare_llm_input_node_raises(state)
       THEN pc' = CRASHED /\ UNCHANGED state
       ELSE pc' = LLM_CLASSIFIER /\ state' = prepare_llm_input_node(state)
    /\ UNCHANGED <<config, index, results, llm_calls, llm_log, stub, first_run>>

\* the responses the client may give to a prompt: anything, unless it is a
\* deterministic stub that has answered this prompt before
ClientResponses(prompt) ==
    IF IsNone(stub) \/ ~RowHas(Val(stub), prompt) THEN Responses
    ELSE {RowAt(Val(stub), prompt)}

llm_classifier ==
    /\ pc = LLM_CLASSIFIER
    /\ IF llm_classification_agent_skips(state)
       THEN /\ state' = llm_classification_agent(state, RaisedResponse(<<>>))
            /\ UNCHANGED <<llm_calls, llm_log, stub>>
       ELSE \E response \in ClientResponses(Val(state.llm_prompt)) :
            /\ state' = llm_classification_agent(state, response)
            /\ llm_calls' = llm_calls + 1
            /\ llm_log' = [llm_log EXCEPT ![Len(llm_log)] = Some(response)]
            /\ stub' = IF IsNone(stub) \/ RowHas(Val(stub), Val(state.llm_prompt))
                       THEN stub
                       ELSE Some(Append(Val(stub), Item(Val(state.llm_prompt), response)))
    /\ pc' = QUALITY_CHECKER
    /\ UNCHANGED <<config, index, results, first_run>>

quality_checker ==
    /\ pc = QUALITY_CHECKER
    /\ state' = quality_check_node(state)
    /\ pc' = ROUTER
    /\ UNCHANGED <<config, index, results, llm_calls, llm_log, stub, first_run>>

\* the conditional edge after quality_checker
router ==
    /\ pc = ROUTER
    /\ IF decide_next_step_raises(state) THEN pc' = CRASHED
       ELSE IF decide_next_step(state) = HANDLE_ERROR THEN pc' = ERROR_HANDLER
       ELSE pc' = END
    /\ UNCHANGED <<config, index, state, results, llm_calls, llm_log, stub, first_run>>

error_handler ==
    /\ pc = ERROR_HANDLER
    /\ IF error_handling_node_raises(state)
       THEN pc' = CRASHED /\ UNCHANGED state
       ELSE pc' = END /\ state' = error_handling_node(state)
    /\ UNCHANGED <<config, index, results, llm_calls, llm_log, stub, first_run>>

\* final_state = app.invoke(...); output_row = ...; results.append(output_row)
StoreResult ==
    /\ pc = END
    /\ results' = Append(results, output_row(state))
    /\ index' = index + 1
    /\ pc' = IDLE
    /\ state' = NoState
    /\ UNCHANGED <<config, llm_calls, llm_log, stub, first_run>>

\* after the loop: results_df = pd.DataFrame(results); results_df.to_csv(...)
SaveResults ==
    /\ pc = IDLE
    /\ index > Len(df)
    /\ pc' = SAVED
    /\ UNCHANGED <<config, index, state, results, llm_calls, llm_log, stub, first_run>>

\* the same row is run a second time with the same supervision and the same
\* deterministic stub: app.invoke(initial_state) again, on the dict the first
\* run was given (reuse) or on a fresh row.to_dict() of the same row
Reinvoke ==
    /\ pc = END
    /\ IsNone(first_run)
    /\ \E reuse \in BOOLEAN :
          /\ first_run' = Some([output |-> output_row(state),
                                steps |-> state.processing_steps,
                                reuse |-> reuse])
          /\ state' = initial_state(IF reuse THEN state.input_row ELSE df[index])
    /\ pc' = STRATEGY_DETERMINER
    /\ llm_calls' = 0
    /\ UNCHANGED <<config, index, results, llm_log, stub>>

Workflow ==
    \/ strategy_determiner
    \/ row_validator
    \/ prompt_preparer
    \/ llm_classifier
    \/ quality_checker
    \/ router
    \/ error_handler

Next == InvokeRow \/ Workflow \/ StoreResult \/ SaveResults

Spec == Init /\ [][Next]_vars

\* the nodes of one invocation run to completion and the loop goes on: nothing
\* but an exception stops the script
FairSpec == Spec /\ WF_vars(Next)

\* one row, run twice against a deterministic classifier stub
InitRerun ==
    /\ target_column \in {"", TARGET}
    /\ user_provided_examples \in {None} \cup {Some(e) : e \in ExampleSets}
    /\ user_label_column_name = IF IsNone(user_provided_examples) THEN None ELSE Some(LABEL)
    /\ user_class_definitions \in {None} \cup {Some(d) : d \in DefinitionSets}
    /\ df \in Frames(1)
    /\ index = 1
    /\ state = NoState
    /\ pc = IDLE
    /\ results = <<>>
    /\ llm_calls = 0
    /\ llm_log = <<>>
    /\ stub = Some(<<>>)
    /\ first_run = None

NextRerun == InvokeRow \/ Workflow \/ Reinvoke

SpecRerun == InitRerun /\ [][NextRerun]_vars

-----------------------------------------------------------------------------
(* One invocation of the compiled graph on a row of its own, with the      *)
(* answer the client gives (None when it is not called): the edges of      *)
(* create_graph, for a row whose nodes do not raise.                       *)

RunAlone(row, response) ==
    LET s1 == determine_classification_strategy(initial_state(row))
        s2 == validate_row_data(s1)
        s3 == prepare_llm_input_node(s2)
        s4 == llm_classification_agent(s3, IF IsNone(response) THEN RaisedResponse(<<>>)
                                           ELSE Val(response))
        s5 == quality_check_node(s4)
    IN  IF decide_next_step(s5) = HANDLE_ERROR THEN error_handling_node(s5) ELSE s5

-----------------------------------------------------------------------------
(* Vocabulary of the properties *)

\* a row is in the workflow, or its workflow is over
InWorkflow == pc \in {STRATEGY_DETERMINER, ROW_VALIDATOR, PROMPT_PREPARER, LLM_CLASSIFIER,
                      QUALITY_CHECKER, ROUTER, ERROR_HANDLER, END, CRASHED}

\* the stages that have run, by the node that runs next
AfterStrategy == InWorkflow /\ pc # STRATEGY_DETERMINER
AfterClassifier == pc \in {QUALITY_CHECKER, ROUTER, ERROR_HANDLER, END}
AfterQualityGate == pc \in {ROUTER, ERROR_HANDLER, END}

\* the workflow of the row has stopped: it reached End, or an exception left it
WorkflowOver == pc \in {END, CRASHED}

\* what the client answered in this invocation (None when it was not called)
LastResponse == IF InWorkflow /\ llm_log # <<>> /\ llm_calls > 0
                THEN llm_log[Len(llm_log)] ELSE None

\* the Error Handler has run to completion for this row
ErrorHandlerRan ==
    /\ state.processing_steps # <<>>
    /\ StartsWith(state.processing_steps[Len(state.processing_steps)],
                  <<"error_handling_node: Logged - ">>)

TargetAbsent == InWorkflow /\ ~RowHas(state.input_row, target_column)

-----------------------------------------------------------------------------
(* C1 -- when the workflow of a row reaches End, its category is present   *)
(* and non-empty, and its confidence is absent or lies in [0,1].           *)
C1_CategoryNonEmptyAtEnd ==
    pc = END =>
        /\ Truthy(state.classification_category)
        /\ \/ IsNone(state.confidence_score)
           \/ (0 <= Val(state.confidence_score) /\ Val(state.confidence_score) <= 100)

-----------------------------------------------------------------------------
(* C2 -- with a non-empty target field name and a non-empty example        *)
(* sequence the Strategy Selector sets mode to few-shot, whether or not    *)
(* definitions are supplied too.                                           *)
C2_ExamplesBeatDefinitions ==
    (AfterStrategy /\ target_column # "" /\ Truthy(user_provided_examples))
        => state.classification_mode = Some(FEW_SHOT)

C2_Witness ==
    /\ pc = ROW_VALIDATOR
    /\ target_column # ""
    /\ Truthy(user_provided_examples)
    /\ Truthy(user_class_definitions)
    /\ state.classification_mode = Some(FEW_SHOT)

-----------------------------------------------------------------------------
(* C3 -- with a non-empty target field name and examples absent or empty,  *)
(* the Strategy Selector sets mode to definition-based exactly when the    *)
(* definitions are non-empty and to unsupervised otherwise; with a         *)
(* non-empty target field name it sets no error in any of the three modes. *)
C3_DefinitionsThenUnsupervised ==
    (pc = ROW_VALIDATOR /\ target_column # "") =>
        /\ IsNone(state.error_message)
        /\ ~Truthy(user_provided_examples) =>
              state.classification_mode =
                  IF Truthy(user_class_definitions) THEN Some(DEFINITION_BASED)
                  ELSE Some(UNSUPERVISED)

C3_Witness ==
    /\ pc = ROW_VALIDATOR
    /\ target_column # ""
    /\ user_provided_examples = Some(<<>>)
    /\ Truthy(user_class_definitions)
    /\ state.classification_mode = Some(DEFINITION_BASED)
    /\ IsNone(state.error_message)

-----------------------------------------------------------------------------
(* C4 -- as claimed: a row whose target field is absent from input_row     *)
(* ends with error set and a category starting "Review_Needed: Error:".    *)
C4_Original ==
    (WorkflowOver /\ TargetAbsent) =>
        /\ Truthy(state.error_message)
        /\ ~IsNone(state.classification_category)
        /\ StartsWith(Val(state.classification_category), REVIEW_PREFIX \o ERROR_MARK)

(* C4, amended -- a row whose target field is absent from input_row has    *)
(* error set once the Row Validator has run, and no later stage gives it a *)
(* category: the Quality Gate skips it, so the category is absent (never   *)
(* "Review_Needed: ...") when the Router hands it to the Error Handler.    *)
C4_TargetAbsentIsErrorWithoutReview ==
    (TargetAbsent /\ pc \notin {STRATEGY_DETERMINER, ROW_VALIDATOR}) =>
        /\ Truthy(state.error_message)
        /\ IsNone(state.classification_category)

C4_Witness ==
    /\ TargetAbsent
    /\ target_column # ""
    /\ pc = ERROR_HANDLER
    /\ Truthy(state.error_message)
    /\ IsNone(state.classification_category)

-----------------------------------------------------------------------------
(* C5 -- when the classifier call raises, the Classifier Invoker sets      *)
(* error, category "Error: LLM Exception", confidence 0 and no rationale;  *)
(* the Quality Gate leaves them alone, the Router selects the Error        *)
(* Handler, and the row is at End only after the Error Handler ran, with   *)
(* category still exactly "Error: LLM Exception" and confidence 0.         *)
C5_RaisedCallEndsAsLLMException ==
    (~IsNone(LastResponse) /\ Val(LastResponse).kind = "raise") =>
        /\ AfterClassifier
        /\ Truthy(state.error_message)
        /\ state.classification_category = Some(LLM_EXCEPTION)
        /\ state.confidence_score = Some(0)
        /\ IsNone(state.llm_reasoning)
        /\ pc = END => ErrorHandlerRan

C5_Witness ==
    /\ pc = END
    /\ ~IsNone(LastResponse)
    /\ Val(LastResponse).kind = "raise"
    /\ ErrorHandlerRan
    /\ state.classification_category = Some(LLM_EXCEPTION)
    /\ state.confidence_score = Some(0)

-----------------------------------------------------------------------------
(* C6 -- in few-shot mode, when the classifier answers "Category:          *)
(* Uncertain", the Classifier Invoker parses "Uncertain" and the Quality   *)
(* Gate rewrites it to exactly "Review_Needed: Uncertain": the uncertainty *)
(* rule wins over the low-confidence rule, and error stays absent.         *)
C6_UncertainIsDemotedWithoutSuffix ==
    (/\ state.classification_mode = Some(FEW_SHOT)
     /\ LastResponse = Some(TextResponse(<<"Category:", SP, "Uncertain">>))) =>
        /\ IsNone(state.error_message)
        /\ pc = QUALITY_CHECKER => state.classification_category = Some(UNCERTAIN)
        /\ AfterQualityGate =>
              state.classification_category = Some(<<"Review_Needed", ":", SP, "Uncertain">>)
        /\ pc \notin {ERROR_HANDLER, CRASHED}

C6_Witness ==
    /\ pc = END
    /\ state.classification_mode = Some(FEW_SHOT)
    /\ LastResponse = Some(TextResponse(<<"Category:", SP, "Uncertain">>))
    /\ state.classification_category = Some(<<"Review_Needed", ":", SP, "Uncertain">>)
    /\ state.confidence_score = Some(UncertainConfidence)

-----------------------------------------------------------------------------
(* C7 -- every row workflow eventually reaches End: whenever the Router    *)
(* selects the Error Handler, the Error Handler completes and the workflow *)
(* ends, also for a row that failed before classification and whose        *)
(* category is still absent.                                               *)
C7_ErrorHandlerReachesEnd == [](pc = ERROR_HANDLER => <>(pc = END))

-----------------------------------------------------------------------------
(* C8 -- a row that fails does not stop the batch and does not change any  *)
(* other row's outputs: when the batch is over every row has an output     *)
(* entry, and every entry equals what its row yields when processed alone. *)
BatchOver == pc \in {SAVED, CRASHED}

C8_FailedRowDoesNotStopBatch ==
    /\ BatchOver => Len(results) = Len(df)
    /\ \A i \in 1..Len(results) : results[i] = output_row(RunAlone(df[i], llm_log[i]))

-----------------------------------------------------------------------------
(* C9 -- the batch returns exactly one augmented output per input row, in  *)
(* input order: the i-th output holds the fields of the i-th input row     *)
(* (the target value as the text it was validated as) plus the outputs of  *)
(* that row's workflow.                                                    *)
SameFields(out, row) ==
    /\ Keys(out) = Keys(row)
    /\ \A j \in 1..Len(row) :
          \/ out[j].v = row[j].v
          \/ (row[j].k = target_column /\ StrOk(row[j].v) /\ out[j].v = Str(StrOf(row[j].v)))

C9_OneOutputPerRowInOrder ==
    BatchOver =>
        /\ Len(results) = Len(df)
        /\ \A i \in 1..Len(df) :
              /\ SameFields(results[i].input_row, df[i])
              /\ results[i].llm_classification # None

-----------------------------------------------------------------------------
(* C10 -- as claimed: the second run of a row, with the same inputs and a  *)
(* deterministic stub, yields the same mode, category, confidence,         *)
(* rationale, error and trace as the first, also when it re-uses the row   *)
(* the first run was given.                                                *)
OutputFields(o) ==
    <<o.classification_mode_used, o.llm_classification, o.llm_confidence,
      o.llm_reasoning_output, o.processing_error>>

SecondRunOver == pc = END /\ ~IsNone(first_run)

C10_Original ==
    SecondRunOver =>
        /\ OutputFields(output_row(state)) = OutputFields(Val(first_run).output)
        /\ output_row(state).processing_steps_log = Val(first_run).output.processing_steps_log

(* C10, amended -- the second run yields the same mode, category,          *)
(* confidence, rationale and error as the first.  The trace is the same    *)
(* too when the second run starts from the original row; when it re-uses   *)
(* the row of the first run, its trace is the first trace without the      *)
(* entry "validate_row_data: WARNING - Converted target column to string", *)
(* which only the run that converts the value records.                     *)
CONVERTED_WARNING == <<"validate_row_data: WARNING - Converted target column to string">>

IsNotWarning(entry) == entry # CONVERTED_WARNING

C10_SecondRunSameOutputs ==
    SecondRunOver =>
        /\ OutputFields(output_row(state)) = OutputFields(Val(first_run).output)
        /\ state.processing_steps =
              IF Val(first_run).reuse
              THEN SelectSeq(Val(first_run).steps, IsNotWarning)
              ELSE Val(first_run).steps

C10_Witness ==
    /\ SecondRunOver
    /\ Val(first_run).reuse
    /\ \E i \in 1..Len(Val(first_run).steps) : Val(first_run).steps[i] = CONVERTED_WARNING
    /\ llm_calls = 1
    /\ Truthy(state.classification_category)
    /\ state.classification_category = Val(first_run).output.llm_classification

-----------------------------------------------------------------------------
(* C11 -- error is sticky: once a stage has set error, no later step of    *)
(* the row's workflow (Quality Gate and Error Handler included) clears it  *)
(* or replaces it by another text.                                         *)
StaysInWorkflow == InWorkflow /\ InWorkflow' /\ pc # END

C11_ErrorIsSticky ==
    [][(StaysInWorkflow /\ Truthy(state.error_message))
           => state'.error_message = state.error_message]_vars

C11_Witness ==
    /\ pc = END
    /\ ErrorHandlerRan
    /\ state.error_message = Some(<<"LLM call/parsing failed: ", "timeout">>)
-----------------------------------------------------------------------------
(* C12 -- once error is set, every stage that runs afterwards other than   *)
(* the Error Handler leaves category, confidence, rationale, prompt_text,  *)
(* mode and input_row unchanged and does not call the classifier; the      *)
(* trace only grows.                                                       *)
IsPrefix(a, b) == Len(a) <= Len(b) /\ SubSeq(b, 1, Len(a)) = a

FrameFields(st) ==
    <<st.classification_category, st.confidence_score, st.llm_reasoning,
      st.llm_prompt, st.classification_mode, st.input_row>>

C12_FailedRowIsFrozen ==
    [][(StaysInWorkflow /\ Truthy(state.error_message)) =>
          /\ IsPrefix(state.processing_steps, state'.processing_steps)
          /\ llm_calls' = llm_calls
          /\ llm_log' = llm_log
          /\ pc # ERROR_HANDLER => FrameFields(state') = FrameFields(state)]_vars

C12_Witness ==
    /\ pc = ROUTER
    /\ Truthy(state.error_message)
    /\ state.classification_category = Some(LLM_EXCEPTION)
    /\ state.processing_steps[Len(state.processing_steps)] = <<"quality_check_node: SKIPPED">>
    /\ llm_calls = 1
-----------------------------------------------------------------------------
(* C13 -- Router: after the Quality Gate the Error Handler is entered if   *)
(* and only if error is set; a row with error absent goes straight to End, *)
(* also when its category starts with "Review_Needed", and no step leads   *)
(* back to an earlier stage.  The Router changes no field of the state.    *)
C13_RouterFollowsError ==
    [][/\ pc = ROUTER =>
             /\ state' = state
             /\ pc' = IF Truthy(state.error_message) THEN ERROR_HANDLER ELSE END
       /\ pc' = ERROR_HANDLER => pc = ROUTER
       /\ pc = ERROR_HANDLER => pc' \in {END, CRASHED}
       /\ (pc' = END /\ ~Truthy(state'.error_message)) => pc = ROUTER]_vars

C13_Witness ==
    /\ pc = END
    /\ IsNone(state.error_message)
    /\ Truthy(state.classification_category)
    /\ StartsWith(Val(state.classification_category), REVIEW_PREFIX)
    /\ state.processing_steps[Len(state.processing_steps)]
           = <<"quality_check_node: FLAGGED FOR REVIEW - Low Confidence">>
-----------------------------------------------------------------------------
(* C14 -- configuration error: with an empty target field name the         *)
(* Strategy Selector sets error and sets no mode, and the failure holds    *)
(* for the whole batch: the classifier is never called for any row, and no *)
(* row ends, or is stored, with error absent.                              *)
NO_TARGET_COLUMN == <<"Critical: target_column_for_classification is not set in the state.">>

C14_ConfigErrorIsFatal ==
    target_column = "" =>
        /\ AfterStrategy =>
              /\ state.error_message = Some(NO_TARGET_COLUMN)
              /\ IsNone(state.classification_mode)
        /\ llm_calls = 0
        /\ \A i \in 1..Len(llm_log) : IsNone(llm_log[i])
        /\ \A i \in 1..Len(results) : Truthy(results[i].processing_error)

C14_Witness ==
    /\ target_column = ""
    /\ Len(df) > 1
    /\ pc = ERROR_HANDLER
    /\ state.error_message = Some(NO_TARGET_COLUMN)
    /\ IsNone(state.classification_mode)
    /\ IsNone(state.llm_prompt)
    /\ llm_calls = 0
-----------------------------------------------------------------------------
(* C15 -- few-shot pass-through: for a row with a text target value,       *)
(* non-empty examples and no definitions, when the classifier answers      *)
(* "Category: L" with L a label of the examples (not "Uncertain" or        *)
(* "Uncategorized", without "Error:"), the category is L from the          *)
(* Classifier Invoker on, unchanged by the Quality Gate, with confidence   *)
(* 0.88 and error absent; the row ends without the Error Handler.          *)
ExampleLabels ==
    IF Truthy(user_provided_examples)
    THEN {Val(user_provided_examples)[i][2].v.s : i \in 1..Len(Val(user_provided_examples))}
    ELSE {}

\* the classifier answered "Category: L", with or without a line break after it
AnsweredCategory(L) ==
    \/ LastResponse = Some(TextResponse(<<"Category:", SP>> \o L))
    \/ LastResponse = Some(TextResponse(<<"Category:", SP>> \o L \o <<NL>>))

FewShotPassThroughCase(L) ==
    /\ InWorkflow
    /\ RowHas(df[index], target_column)
    /\ IsStr(RowAt(df[index], target_column))
    /\ ~Truthy(user_class_definitions)
    /\ L \in ExampleLabels
    /\ L \notin {UNCERTAIN, UNCATEGORIZED}
    /\ ~Contains(L, ERROR_MARK)
    /\ AnsweredCategory(L)

C15_FewShotPassThrough ==
    \A L \in {<<"Urgent">>, <<"Inquiry">>, <<"Uncertain">>} :
        FewShotPassThroughCase(L) =>
            /\ state.classification_mode = Some(FEW_SHOT)
            /\ state.classification_category = Some(L)
            /\ state.confidence_score = Some(ExampleConfidence)
            /\ IsNone(state.error_message)
            /\ pc \in {QUALITY_CHECKER, ROUTER, END}
            /\ ~ErrorHandlerRan

C15_Witness ==
    /\ FewShotPassThroughCase(<<"Inquiry">>)
    /\ pc = END
    /\ state.classification_category = Some(<<"Inquiry">>)
    /\ state.confidence_score = Some(ExampleConfidence)
    /\ state.processing_steps[Len(state.processing_steps)] = <<"quality_check_node: PASSED">>
-----------------------------------------------------------------------------
(* C16 -- unsupervised empty-text case: with no examples and no            *)
(* definitions, a row whose target value is the empty string passes        *)
(* validation; when the classifier's Category line is "Empty/Invalid" the  *)
(* row ends in unsupervised mode with category "Review_Needed:             *)
(* Empty/Invalid", confidence 0.5 and error absent.                        *)
EmptyTextCase ==
    /\ InWorkflow
    /\ target_column # ""
    /\ ~Truthy(user_provided_examples)
    /\ ~Truthy(user_class_definitions)
    /\ RowHas(df[index], target_column)
    /\ RowAt(df[index], target_column) = Str(<<>>)

AnsweredEmptyInvalid ==
    LastResponse = Some(TextResponse(<<"Category:", SP, "Empty/Invalid", NL,
                                       "Reasoning:", SP, "blank">>))

C16_EmptyTextIsDemoted ==
    EmptyTextCase =>
        /\ AfterStrategy => state.classification_mode = Some(UNSUPERVISED)
        /\ pc \in {PROMPT_PREPARER, LLM_CLASSIFIER} => IsNone(state.error_message)
        /\ AnsweredEmptyInvalid =>
              /\ IsNone(state.error_message)
              /\ state.confidence_score = Some(EmptyInvalidConfidence)
              /\ pc \in {QUALITY_CHECKER, ROUTER, END}
              /\ pc = QUALITY_CHECKER => state.classification_category = Some(EMPTY_INVALID)
              /\ pc \in {ROUTER, END} =>
                    state.classification_category = Some(REVIEW_PREFIX \o EMPTY_INVALID)

C16_Witness ==
    /\ EmptyTextCase
    /\ AnsweredEmptyInvalid
    /\ pc = END
    /\ state.classification_mode = Some(UNSUPERVISED)
    /\ state.classification_category = Some(<<"Review_Needed", ":", SP, "Empty/Invalid">>)
    /\ state.confidence_score = Some(EmptyInvalidConfidence)
    /\ IsNone(state.error_message)
-----------------------------------------------------------------------------
(* C17 -- Quality Gate rule order: with error absent the gate applies the  *)
(* first matching rule of (1) category contains "Error:" -> prefix;        *)
(* (2) category is "Uncertain", "Uncategorized" or "Empty/Invalid" ->      *)
(* prefix; (3) confidence present and below 0.65 -> prefix and "(Low       *)
(* Confidence)" suffix; (4) otherwise unchanged.  It changes nothing else  *)
(* but the trace, so the suffix never lands on a rule-1 or rule-2 category *)
(* and the prefix is put in front once.                                    *)
GateRule(category, confidence) ==
    IF Contains(category, <<"Error:">>) THEN 1
    ELSE IF category \in {<<"Uncertain">>, <<"Uncategorized">>, <<"Empty/Invalid">>} THEN 2
    ELSE IF ~IsNone(confidence) /\ Val(confidence) < 65 THEN 3
    ELSE 4

GateResult(category, confidence) ==
    LET rule == GateRule(category, confidence)
    IN  IF rule \in {1, 2} THEN <<"Review_Needed", ":", SP>> \o category
        ELSE IF rule = 3
        THEN <<"Review_Needed", ":", SP>> \o category \o <<SP, "(Low Confidence)">>
        ELSE category

C17_GateAppliesFirstRule ==
    [][(pc = QUALITY_CHECKER /\ ~Truthy(state.error_message)) =>
          /\ ~IsNone(state.classification_category)
          /\ state'.classification_category =
                Some(GateResult(Val(state.classification_category), state.confidence_score))
          /\ state' = [state EXCEPT
                          !.classification_category = state'.classification_category,
                          !.processing_steps = state'.processing_steps]]_vars

\* rule 1 has won over rule 3: an "Error:" category of confidence 0.6
C17_Witness ==
    /\ pc = ROUTER
    /\ IsNone(state.error_message)
    /\ state.confidence_score = Some(OtherConfidence)
    /\ state.classification_category = Some(<<"Review_Needed", ":", SP, "Error:", SP, "oops">>)
-----------------------------------------------------------------------------
(* C18 -- Error Handler normalization: in every state in which it runs,    *)
(* the Error Handler completes, sets confidence to 0, keeps a category     *)
(* that starts with "Error:", overwrites any other category, an absent one *)
(* included, with "Error: " + error, and leaves error, mode, prompt_text   *)
(* and rationale (and every other field but the trace) unchanged.          *)
NormalizedCategory(category, error) ==
    IF ~IsNone(category) /\ StartsWith(Val(category), <<"Error:">>)
    THEN category
    ELSE Some(<<"Error:", SP>> \o Val(error))

C18_ErrorHandlerNormalizes ==
    [][pc = ERROR_HANDLER =>
          /\ pc' = END
          /\ state' = [state EXCEPT
                          !.confidence_score = Some(0),
                          !.classification_category =
                              NormalizedCategory(state.classification_category,
                                                 state.error_message),
                          !.processing_steps = state'.processing_steps]]_vars
-----------------------------------------------------------------------------
(* C19 -- as claimed: when the classifier returns a value that is not     *)
(* text, the Classifier Invoker sets error and category "Error: LLM Output *)
(* Type" and leaves confidence absent; the Quality Gate skips the row, the *)
(* Router selects the Error Handler, and the row ends with category        *)
(* exactly "Error: LLM Output Type", confidence 0 and error set.           *)
OutputTypeOutcome ==
    /\ pc \in {QUALITY_CHECKER, ROUTER, ERROR_HANDLER, END}
    /\ state.error_message = Some(<<"LLM response was not a string. Cannot parse.">>)
    /\ state.classification_category = Some(<<"Error:", SP, "LLM Output Type">>)
    /\ pc # END => IsNone(state.confidence_score)
    /\ pc = ROUTER =>
          state.processing_steps[Len(state.processing_steps)]
              = <<"quality_check_node: SKIPPED">>
    /\ pc = END => (ErrorHandlerRan /\ state.confidence_score = Some(0))

ReturnedNonText ==
    ~IsNone(LastResponse) /\ Val(LastResponse).kind \in {"nontext", "unprintable"}

C19_Original == ReturnedNonText => OutputTypeOutcome

(* C19, amended -- the above holds when the returned value can be rendered *)
(* as text (str() of it succeeds); a returned value whose rendering raises *)
(* is handled as a failed call: error set, category "Error: LLM            *)
(* Exception", confidence 0 from the Classifier Invoker on.                *)
AnsweredNonText == ~IsNone(LastResponse) /\ Val(LastResponse).kind = "nontext"

AnsweredUnprintable == ~IsNone(LastResponse) /\ Val(LastResponse).kind = "unprintable"

C19_NonTextEndsAsOutputType ==
    /\ AnsweredNonText => OutputTypeOutcome
    /\ AnsweredUnprintable =>
          /\ pc \in {QUALITY_CHECKER, ROUTER, ERROR_HANDLER, END}
          /\ Truthy(state.error_message)
          /\ state.classification_category = Some(<<"Error:", SP, "LLM Exception">>)
          /\ state.confidence_score = Some(0)

C19_Witness ==
    /\ AnsweredNonText
    /\ pc = END
    /\ ErrorHandlerRan
    /\ state.classification_category = Some(LLM_OUTPUT_TYPE)
    /\ state.confidence_score = Some(ErrorConfidence)
    /\ Truthy(state.error_message)
-----------------------------------------------------------------------------
(* C20 -- the classifier is invoked at most once per row workflow and      *)
(* never when error is set or prompt_text is absent at the Classifier      *)
(* Invoker: a row that failed in the Strategy Selector, the Row Validator  *)
(* or the Prompt Builder reaches End with zero classifier invocations.     *)
FailedBeforeClassifier ==
    pc = LLM_CLASSIFIER /\ (Truthy(state.error_message) \/ ~Truthy(state.llm_prompt))

C20_FailedRowEndsUncalled ==
    /\ [](llm_calls <= 1)
    /\ [](FailedBeforeClassifier => <>(pc = END /\ llm_calls = 0))
-----------------------------------------------------------------------------
(* C21 -- parsing ambiguity is not fatal: in unsupervised mode a text      *)
(* response without a "Category:" marker yields category "Error: Parsing   *)
(* Failed" with error absent; the Quality Gate rewrites it to              *)
(* "Review_Needed: Error: Parsing Failed" and the row reaches End without  *)
(* the Error Handler.                                                      *)
HasNoCategoryMarker(text) == \A i \in 1..Len(text) : LowerTok(text[i]) # "category:"

AnsweredWithoutMarker ==
    /\ ~IsNone(LastResponse)
    /\ Val(LastResponse).kind = "text"
    /\ HasNoCategoryMarker(Val(LastResponse).text)

C21_ParsingFailureIsReviewed ==
    (state.classification_mode = Some(UNSUPERVISED) /\ AnsweredWithoutMarker) =>
        /\ IsNone(state.error_message)
        /\ pc \in {QUALITY_CHECKER, ROUTER, END}
        /\ pc = QUALITY_CHECKER =>
              state.classification_category = Some(<<"Error:", SP, "Parsing Failed">>)
        /\ pc \in {ROUTER, END} =>
              state.classification_category =
                  Some(<<"Review_Needed", ":", SP, "Error:", SP, "Parsing Failed">>)
        /\ ~ErrorHandlerRan

C21_Witness ==
    /\ state.classification_mode = Some(UNSUPERVISED)
    /\ AnsweredWithoutMarker
    /\ pc = END
    /\ IsNone(state.error_message)
    /\ state.classification_category = Some(REVIEW_PREFIX \o PARSING_FAILED)
-----------------------------------------------------------------------------
(* C22 -- confidence heuristic in few-shot and definition-based modes,     *)
(* first match wins: 0.4 for "Uncertain" or "Uncategorized"; else 0.85 for *)
(* a key of the supplied definitions; else 0.88 for the label of a         *)
(* supplied example; else 0.60.  So a category that is both a definition   *)
(* key and an example label gets 0.85, and an example label "Uncertain"    *)
(* gets 0.4.                                                               *)
DefinitionKeys ==
    IF Truthy(user_class_definitions)
    THEN {Val(user_class_definitions)[i].k : i \in 1..Len(Val(user_class_definitions))}
    ELSE {}

TextLabelsOfExamples ==
    IF Truthy(user_provided_examples)
    THEN LET examples == Val(user_provided_examples)
         IN  {examples[i][2].v.s : i \in {j \in 1..Len(examples) : IsStr(examples[j][2].v)}}
    ELSE {}

SupervisedConfidence(category) ==
    IF category \in {<<"Uncertain">>, <<"Uncategorized">>} THEN 40
    ELSE IF category \in DefinitionKeys THEN 85
    ELSE IF category \in TextLabelsOfExamples THEN 88
    ELSE 60

ParsedInSupervisedMode ==
    /\ pc = QUALITY_CHECKER
    /\ state.classification_mode \in {Some(FEW_SHOT), Some(DEFINITION_BASED)}
    /\ ~IsNone(LastResponse)
    /\ Val(LastResponse).kind = "text"

C22_SupervisedConfidence ==
    ParsedInSupervisedMode =>
        /\ ~IsNone(state.classification_category)
        /\ state.confidence_score =
               Some(SupervisedConfidence(Val(state.classification_category)))

\* a definition key that is an example label too, in few-shot mode
C22_Witness ==
    /\ ParsedInSupervisedMode
    /\ state.classification_mode = Some(FEW_SHOT)
    /\ Val(state.classification_category) \in DefinitionKeys \cap TextLabelsOfExamples
    /\ state.confidence_score = Some(DefinitionConfidence)
-----------------------------------------------------------------------------
(* C23 -- confidence heuristic in unsupervised mode: after a text response *)
(* the confidence is 0.9 when the parsed category is exactly "Anomaly",    *)
(* 0.5 when it is exactly "Empty/Invalid", and 0.65 for every other parsed *)
(* category, the default "Error: Parsing Failed" included.                 *)
ParsedInUnsupervisedMode ==
    /\ pc = QUALITY_CHECKER
    /\ state.classification_mode = Some(UNSUPERVISED)
    /\ ~IsNone(LastResponse)
    /\ Val(LastResponse).kind = "text"

C23_UnsupervisedConfidence ==
    ParsedInUnsupervisedMode =>
        /\ ~IsNone(state.classification_category)
        /\ state.confidence_score =
               IF state.classification_category = Some(<<"Anomaly">>) THEN Some(90)
               ELSE IF state.classification_category = Some(<<"Empty/Invalid">>) THEN Some(50)
               ELSE Some(65)
        /\ AnsweredWithoutMarker => state.classification_category = Some(PARSING_FAILED)

C23_Witness ==
    /\ ParsedInUnsupervisedMode
    /\ state.classification_category = Some(ANOMALY)
    /\ state.confidence_score = Some(AnomalyConfidence)
-----------------------------------------------------------------------------
(* C24 -- Row Validator postcondition: when it runs with error absent, it  *)
(* completes, and afterwards either error is set (the target field is      *)
(* missing from input_row, or its value cannot be converted) or            *)
(* input_row[target_field] exists and is text: a present non-text value is *)
(* replaced in place by its string conversion with a warning trace entry,  *)
(* a text value is left unchanged, and no other field of input_row is      *)
(* modified.                                                               *)
HasWarning(steps) == \E i \in 1..Len(steps) : steps[i] = CONVERTED_WARNING

OtherFieldsKept(before, after) ==
    /\ Keys(after) = Keys(before)
    /\ \A j \in 1..Len(before) : before[j].k # target_column => after[j] = before[j]

C24_ValidatorPostcondition ==
    [][(pc = ROW_VALIDATOR /\ ~Truthy(state.error_message)) =>
          /\ pc' = PROMPT_PREPARER
          /\ IF ~RowHas(state.input_row, target_column)
             THEN Truthy(state'.error_message) /\ state'.input_row = state.input_row
             ELSE LET value == RowAt(state.input_row, target_column)
                  IN  IF IsStr(value)
                      THEN /\ IsNone(state'.error_message)
                           /\ state'.input_row = state.input_row
                           /\ ~HasWarning(state'.processing_steps)
                      ELSE IF StrOk(value)
                      THEN /\ IsNone(state'.error_message)
                           /\ OtherFieldsKept(state.input_row, state'.input_row)
                           /\ RowAt(state'.input_row, target_column) = Str(StrOf(value))
                           /\ HasWarning(state'.processing_steps)
                      ELSE /\ Truthy(state'.error_message)
                           /\ state'.input_row = state.input_row]_vars
-----------------------------------------------------------------------------
(* C25 -- the trace is append-only: every stage that completes leaves the  *)
(* trace it found as a proper prefix of the trace it returns, so it        *)
(* appends at least one entry, also when it skips because error is set;    *)
(* the Router leaves the trace alone; and the trace never influences mode, *)
(* category, confidence, error or routing: a stage run on the same state   *)
(* with the trace erased gives the same fields, the same entries appended  *)
(* and the same route.                                                     *)
Stages == {STRATEGY_DETERMINER, ROW_VALIDATOR, PROMPT_PREPARER, LLM_CLASSIFIER,
           QUALITY_CHECKER, ERROR_HANDLER}

Erased(st) == [st EXCEPT !.processing_steps = <<>>]

\* after is what a stage made of st, blind what it made of st without its trace
TraceBlind(st, after, blind) ==
    /\ Erased(after) = Erased(blind)
    /\ after.processing_steps = st.processing_steps \o blind.processing_steps

StageIsTraceBlind ==
    /\ pc = STRATEGY_DETERMINER =>
          TraceBlind(state, determine_classification_strategy(state),
                     determine_classification_strategy(Erased(state)))
    /\ pc = ROW_VALIDATOR =>
          /\ validate_row_data_raises(Erased(state)) = validate_row_data_raises(state)
          /\ ~validate_row_data_raises(state) =>
                TraceBlind(state, validate_row_data(state), validate_row_data(Erased(state)))
    /\ pc = PROMPT_PREPARER =>
          /\ prepare_llm_input_node_raises(Erased(state)) = prepare_llm_input_node_raises(state)
          /\ ~prepare_llm_input_node_raises(state) =>
                TraceBlind(state, prepare_llm_input_node(state),
                           prepare_llm_input_node(Erased(state)))
    /\ pc = LLM_CLASSIFIER =>
          /\ llm_classification_agent_skips(Erased(state)) = llm_classification_agent_skips(state)
          /\ \A response \in Responses :
                TraceBlind(state, llm_classification_agent(state, response),
                           llm_classification_agent(Erased(state), response))
    /\ pc = QUALITY_CHECKER =>
          TraceBlind(state, quality_check_node(state), quality_check_node(Erased(state)))
    /\ pc = ROUTER =>
          /\ decide_next_step_raises(Erased(state)) = decide_next_step_raises(state)
          /\ ~decide_next_step_raises(state) =>
                decide_next_step(Erased(state)) = decide_next_step(state)
    /\ pc = ERROR_HANDLER =>
          /\ error_handling_node_raises(Erased(state)) = error_handling_node_raises(state)
          /\ ~error_handling_node_raises(state) =>
                TraceBlind(state, error_handling_node(state), error_handling_node(Erased(state)))

C25_TraceIsAppendOnly ==
    /\ [][/\ (pc \in Stages /\ pc' # CRASHED) =>
                /\ IsPrefix(state.processing_steps, state'.processing_steps)
                /\ Len(state'.processing_steps) > Len(state.processing_steps)
          /\ pc \in {ROUTER, CRASHED} => state'.processing_steps = state.processing_steps
         ]_<<pc, state>>
    /\ []StageIsTraceBlind

\* a failed row at the Router: each of the five stages before it left an entry
C25_Witness ==
    /\ pc = ROUTER
    /\ Truthy(state.error_message)
    /\ Len(state.processing_steps) = 5
    /\ state.processing_steps[2] = <<"validate_row_data: SKIPPED due to prior error">>
    /\ state.processing_steps[5] = <<"quality_check_node: SKIPPED">>
-----------------------------------------------------------------------------
(* C26 -- mode is written only by the Strategy Selector, at most once per  *)
(* row; whenever the Prompt Builder or the Classifier Invoker reads it     *)
(* (it is not skipping), mode is unsupervised, few-shot or                 *)
(* definition-based, so the error "Unknown classification mode" is never   *)
(* produced.                                                               *)
KnownModes == {Some(UNSUPERVISED), Some(FEW_SHOT), Some(DEFINITION_BASED)}

ReadsMode ==
    \/ pc = PROMPT_PREPARER /\ ~Truthy(state.error_message)
    \/ pc = LLM_CLASSIFIER /\ ~Truthy(state.error_message) /\ Truthy(state.llm_prompt)

ModeIsKnownWhenRead ==
    /\ ReadsMode => state.classification_mode \in KnownModes
    /\ (InWorkflow /\ Truthy(state.error_message)) =>
          ~StartsWith(Val(state.error_message), <<"Unknown classification mode: ">>)

C26_ModeWrittenOnceAndKnown ==
    /\ [][(StaysInWorkflow /\ state'.classification_mode # state.classification_mode) =>
              /\ pc = STRATEGY_DETERMINER
              /\ IsNone(state.classification_mode)
              /\ state'.classification_mode \in KnownModes]_vars
    /\ []ModeIsKnownWhenRead

C26_Witness ==
    /\ pc = LLM_CLASSIFIER
    /\ ReadsMode
    /\ state.classification_mode = Some(DEFINITION_BASED)
    /\ state.processing_steps[Len(state.processing_steps)]
           = <<"prepare_llm_input_node: SUCCESS - Mode ", "definition_based">>
-----------------------------------------------------------------------------
(* C27 -- a quality flag is not an error: the Quality Gate never sets      *)
(* error and never changes confidence, rationale, mode or prompt_text; and *)
(* every row it demotes to a "Review_Needed: " category reaches End with   *)
(* error absent and without the Error Handler running.                     *)
GateKeeps(st) ==
    <<st.error_message, st.confidence_score, st.llm_reasoning,
      st.classification_mode, st.llm_prompt>>

\* the Quality Gate has just flagged the row
Demoted ==
    /\ pc = ROUTER
    /\ StartsWith(state.processing_steps[Len(state.processing_steps)],
                  <<"quality_check_node: FLAGGED FOR REVIEW - ">>)
       \/ state.processing_steps[Len(state.processing_steps)]
              = <<"quality_check_node: FLAGGED FOR REVIEW - Low Confidence">>

EndedWithoutError == pc = END /\ IsNone(state.error_message) /\ ~ErrorHandlerRan

C27_QualityFlagIsNotError ==
    /\ [][pc = QUALITY_CHECKER => GateKeeps(state') = GateKeeps(state)]_vars
    /\ [](Demoted =>
            /\ IsNone(state.error_message)
            /\ Truthy(state.classification_category)
            /\ StartsWith(Val(state.classification_category), <<"Review_Needed", ":", SP>>))
    /\ [](Demoted => <>EndedWithoutError)

C27_Witness ==
    /\ EndedWithoutError
    /\ state.classification_category
           = Some(<<"Review_Needed", ":", SP, "no idea", SP, "(Low Confidence)">>)
    /\ state.confidence_score = Some(OtherConfidence)
-----------------------------------------------------------------------------
(* C28 -- at End, for every row: error is set if and only if the Error     *)
(* Handler ran, if and only if the category starts with "Error:"; and when *)
(* error is set the confidence is 0.  So a row that ends with error absent *)
(* never has a category starting with "Error:".                            *)
CategoryIsError ==
    /\ ~IsNone(state.classification_category)
    /\ StartsWith(Val(state.classification_category), <<"Error:">>)

C28_ErrorIffHandledIffErrorCategory ==
    pc = END =>
        /\ Truthy(state.error_message) <=> ErrorHandlerRan
        /\ ErrorHandlerRan <=> CategoryIsError
        /\ Truthy(state.error_message) => state.confidence_score = Some(0)

C28_Witness ==
    /\ pc = END
    /\ IsNone(state.error_message)
    /\ ~ErrorHandlerRan
    /\ state.classification_category = Some(REVIEW_PREFIX \o <<"Error:", SP, "oops">>)
    /\ state.classification_mode = Some(UNSUPERVISED)
-----------------------------------------------------------------------------
(* C29 -- in unsupervised mode the Quality Gate's low-confidence rule      *)
(* never fires, and no unsupervised row ends with a category carrying the  *)
(* "(Low Confidence)" suffix.  In few-shot and definition-based modes the  *)
(* gate applies the suffix exactly when the parsed category does not       *)
(* contain "Error:", is not "Uncertain", "Uncategorized" or                *)
(* "Empty/Invalid", is not a definition key and is not an example label.   *)
EndsWith(s, suffix) ==
    Len(suffix) <= Len(s) /\ SubSeq(s, Len(s) - Len(suffix) + 1, Len(s)) = suffix

LOW_CONFIDENCE_ENTRY == <<"quality_check_node: FLAGGED FOR REVIEW - Low Confidence">>

\* the step of the Quality Gate put the suffix behind the category it found
SuffixApplied(before, after) ==
    /\ after.classification_category =
           Some(<<"Review_Needed", ":", SP>> \o Val(before.classification_category)
                \o <<SP, "(Low Confidence)">>)
    /\ after.processing_steps[Len(after.processing_steps)] = LOW_CONFIDENCE_ENTRY

SuffixLeftOut(before, after) ==
    /\ ~EndsWith(Val(after.classification_category), <<SP, "(Low Confidence)">>)
    /\ after.processing_steps[Len(after.processing_steps)] # LOW_CONFIDENCE_ENTRY

PlainUnknownCategory(category) ==
    /\ ~Contains(category, <<"Error:">>)
    /\ category \notin {<<"Uncertain">>, <<"Uncategorized">>, <<"Empty/Invalid">>}
    /\ category \notin DefinitionKeys
    /\ category \notin TextLabelsOfExamples

C29_LowConfidenceOnlySupervised ==
    /\ [][(pc = QUALITY_CHECKER /\ ~Truthy(state.error_message)) =>
              IF state.classification_mode = Some(UNSUPERVISED)
              THEN SuffixLeftOut(state, state')
              ELSE IF PlainUnknownCategory(Val(state.classification_category))
              THEN SuffixApplied(state, state')
              ELSE SuffixLeftOut(state, state')]_vars
    /\ []((pc = END /\ state.classification_mode = Some(UNSUPERVISED)) =>
              ~EndsWith(Val(state.classification_category), <<SP, "(Low Confidence)">>))

C29_Witness ==
    /\ pc = END
    /\ state.classification_mode = Some(DEFINITION_BASED)
    /\ state.classification_category
           = Some(<<"Review_Needed", ":", SP, "Inquiry", SP, "(Low Confidence)">>)
-----------------------------------------------------------------------------
(* C30 -- every row that passes the Strategy Selector and the Row          *)
(* Validator gets a non-empty prompt_text from the Prompt Builder and      *)
(* exactly one classifier invocation; prompt_text is set if and only if no *)
(* error was set before the Prompt Builder finished, and it is never       *)
(* changed afterwards.                                                     *)
PassedValidation == pc = PROMPT_PREPARER /\ ~Truthy(state.error_message)

C30_ValidRowGetsPromptAndOneCall ==
    /\ [][PassedValidation =>
              /\ pc' = LLM_CLASSIFIER
              /\ Truthy(state'.llm_prompt)]_vars
    /\ [][(StaysInWorkflow /\ ~IsNone(state.llm_prompt)) =>
              state'.llm_prompt = state.llm_prompt]_vars
    /\ [](pc = LLM_CLASSIFIER => (Truthy(state.llm_prompt) <=> IsNone(state.error_message)))
    /\ [](pc \in {QUALITY_CHECKER, ROUTER, ERROR_HANDLER, END} =>
              llm_calls = IF Truthy(state.llm_prompt) THEN 1 ELSE 0)
====
